---- MODULE Spec2Model ----
(***************************************************************************)
(* Keybase of pocket-js (src/src/keybase/keybase.ts): encrypted account    *)
(* records and their index in a key-value store, the in-memory table of    *)
(* unlocked accounts, and the auto-lock timers scheduled by unlockAccount. *)
(*                                                                         *)
(* Strings and buffers are sequences of small numbers.  A character is a   *)
(* number: 0..15 are the hex digits, larger numbers are other characters.  *)
(* A byte is a number in 0..3 (two bits).  A private key is the seed half  *)
(* followed by the public-key half, KeyHalfLen bytes each.                 *)
(***************************************************************************)
EXTENDS Integers, Sequences, FiniteSets, TLC

\* ------------------------------------------------------------------ bounds
KeyHalfLen == 1
MaxIndexLen == 2
MaxTimers == 1
\* configuration.maxNodes of the routing tables
MaxNodes == 2

\* ------------------------------------------------------- values and inputs
Undefined == [type |-> "undefined"]

Error(msg) == [type |-> "Error", message |-> msg]

Rep(b) == [i \in 1..KeyHalfLen |-> b]

\* ed25519.MakeKeypair(seed): the private key is seed || publicKey, the
\* public key a deterministic function of the seed.
MakeKeypair(seed) ==
    LET publicKey == [i \in 1..Len(seed) |-> (seed[i] + 1) % 4]
    IN  [publicKey |-> publicKey, privateKey |-> seed \o publicKey]

Seeds == {Rep(0), Rep(1)}

\* private keys handed to importAccount: the generated ones and one of the
\* wrong length
PrivateKeys == {MakeKeypair(s).privateKey : s \in Seeds} \cup {Rep(0)}

Passphrases == {<< >>, <<1>>, <<2>>}

Periods == {0, 1}

Payloads == {<<1>>}

\* ----------------------------------------------------- crypto primitives
RECURSIVE Xor(_, _)
Xor(a, b) ==
    IF a = 0 THEN b
    ELSE IF b = 0 THEN a
    ELSE (((a % 2) + (b % 2)) % 2) + 2 * Xor(a \div 2, b \div 2)

RECURSIVE SumSeq(_)
SumSeq(s) == IF Len(s) = 0 THEN 0 ELSE s[1] + SumSeq(Tail(s))

\* pbkdf2.pbkdf2Sync(passphrase, sha256(passphrase), 1, 256 / 8): a
\* deterministic key, different for different passphrases
pbkdf2Sync(passphrase) == SumSeq(passphrase) % 4

\* new aesjs.ModeOfOperation.ctr(key, undefined): the counter starts at the
\* same value in every call, so the key stream depends on the key only;
\* encrypt and decrypt both xor the data with it
ctr(key, data) == [i \in 1..Len(data) |-> Xor(data[i], (key + i) % 4)]

\* aesjs.utils.hex.fromBytes / Buffer.toString("hex"): two digits per byte
RECURSIVE hexFromBytes(_)
hexFromBytes(bytes) ==
    IF Len(bytes) = 0 THEN << >>
    ELSE <<bytes[1] \div 16, (bytes[1] % 16)>> \o hexFromBytes(Tail(bytes))

\* aesjs.utils.hex.toBytes / Buffer.from(hex, "hex")
hexToBytes(hex) ==
    [i \in 1..(Len(hex) \div 2) |-> 16 * hex[2 * i - 1] + hex[2 * i]]

\* ed25519.Sign(payload, privateKey)
Sign(payload, privateKey) ==
    [type |-> "Buffer", payload |-> payload, key |-> privateKey]

\* ------------------------------------------------------ utils / key-pair
\* sha256 of the public key, truncated, as a buffer
addressFromPublickey(publicKey) ==
    [i \in 1..Len(publicKey) |-> (publicKey[i] + 2) % 4]

publicKeyFromPrivate(privateKey) ==
    SubSeq(privateKey, Len(privateKey) \div 2 + 1, Len(privateKey))

validatePrivateKey(privateKey) == Len(privateKey) = 2 * KeyHalfLen

validateAddressHex(addressHex) ==
    IF \E i \in 1..Len(addressHex) : addressHex[i] \notin 0..15
    THEN Error("Invalid string is not hex")
    ELSE IF Len(addressHex) # 2 * KeyHalfLen
    THEN Error("Invalid address length")
    ELSE Undefined

typeGuard(o, className) ==
    \/ o.type = className
    \/ className = "Account" /\ o.type = "UnlockedAccount"

\* --------------------------------------------------------------- models
Account(publicKey, encryptedPrivateKeyHex) ==
    [type |-> "Account",
     publicKey |-> publicKey,
     addressHex |-> hexFromBytes(addressFromPublickey(publicKey)),
     encryptedPrivateKeyHex |-> encryptedPrivateKeyHex]

UnlockedAccount(account, privateKey) ==
    [type |-> "UnlockedAccount",
     publicKey |-> account.publicKey,
     addressHex |-> account.addressHex,
     encryptedPrivateKeyHex |-> account.encryptedPrivateKeyHex,
     privateKey |-> privateKey]

Array(items) == [type |-> "Array", items |-> items]

Promise(value) == [type |-> "Promise", value |-> value]

\* ---------------------------------------------------------------- store
\* IKVStore: a mapping from keys to values
StoreGet(st, key) == IF key \in DOMAIN st THEN st[key] ELSE Undefined

StoreAdd(st, key, value) ==
    [k \in DOMAIN st \cup {key} |-> IF k = key THEN value ELSE st[k]]

StoreRemove(st, key) == [k \in DOMAIN st \ {key} |-> st[k]]

EmptyStore == [k \in {} |-> Undefined]

\* "account_" and "account_index" as character sequences
ACCOUNT_STORE_PREFIX == <<10, 12, 12, 24, 30, 23, 29, 36>>

ACCOUNT_INDEX_KEY == ACCOUNT_STORE_PREFIX \o <<18, 23, 13, 14, 33>>

generateAccountStoreKey(account) == ACCOUNT_STORE_PREFIX \o account.addressHex

generateAccountStoreKeyFromAddressHex(addressHex) ==
    ACCOUNT_STORE_PREFIX \o addressHex

\* addresses handed to the operations: those of the keys above, one that is
\* well-formed but never created, one that is not hex, one too short
AddressOf(privateKey) ==
    hexFromBytes(addressFromPublickey(publicKeyFromPrivate(privateKey)))

Addresses ==
    {AddressOf(k) : k \in {k \in PrivateKeys : validatePrivateKey(k)}}

MalformedAddresses == {Rep(16) \o Rep(16), Rep(0)}

AddressInputs == Addresses \cup MalformedAddresses

\* an address with a passphrase: every passphrase for the well-formed
\* addresses, one for the malformed ones
Credentials ==
    (Addresses \X Passphrases) \cup (MalformedAddresses \X {<<1>>})

\* an address with its passphrase and a new one
PassphraseChanges ==
    (Addresses \X Passphrases \X Passphrases)
        \cup (MalformedAddresses \X {<<1>>} \X {<<1>>})

\* -------------------------------------------------------------- routing
\* Node: the fields the routing tables look at; an address is a string of
\* characters, 0..9 the digits, 10..35 the letters a..z, 37..62 A..Z
Node(address, chains) ==
    [type |-> "Node", address |-> address, chains |-> chains]

\* String.prototype.toUpperCase
toUpperCase(str) ==
    [i \in 1..Len(str) |->
        IF str[i] \in 10..35 THEN str[i] + 27 ELSE str[i]]

\* one node with the address "a" and one with the address "1"
AllNodes == {Node(<<10>>, <<1>>), Node(<<1>>, <<2, 1>>)}

\* the addresses readNode is asked for: those of the nodes as they are and
\* in upper case, and one that no node has
NodeAddresses ==
    {n.address : n \in AllNodes}
        \cup {toUpperCase(n.address) : n \in AllNodes} \cup {<<2>>}

Blockchains == {1, 2, 3}

\* the node lists handed to constructors and to filterNodes
RECURSIVE NodeLists(_)
NodeLists(n) ==
    IF n = 0 THEN {<< >>}
    ELSE NodeLists(n - 1)
            \cup {Append(l, x) : l \in NodeLists(n - 1), x \in AllNodes}

\* the array both constructors are handed at the start
InitialNodes == <<Node(<<10>>, <<1>>)>>

\* an exception instead of a return value
Thrown(msg) == [type |-> "thrown", error |-> Error(msg)]

\* fs.readFileSync(this.localNodesFileName, "utf8") with the file name "",
\* which is the only value the readonly field ever has
loadLocalNodes == Thrown("ENOENT: no such file or directory, open ''")

RoutingTable_constructor(ns) ==
    IF Len(ns) > MaxNodes
    THEN Thrown("Routing table cannot contain more than the specified maxNodes per blockchain.")
    ELSE IF Len(ns) < 1
    THEN Thrown("Routing table must be initialized with at least one node.")
    ELSE [type |-> "RoutingTable", nodes |-> ns]

Routing_constructor(ns) ==
    IF Len(ns) > MaxNodes
    THEN Thrown("Routing table cannot contain more than the specified maxNodes per blockchain.")
    ELSE IF Len(ns) < 1
    THEN loadLocalNodes
    ELSE [type |-> "Routing", nodes |-> ns]

\* nodes.push(node), then nodes.splice(0, 1) when over maxNodes
RoutingTable_addNode(ns, node) ==
    LET pushed == Append(ns, node)
    IN  IF Len(pushed) > MaxNodes
        THEN SubSeq(pushed, 2, Len(pushed))
        ELSE pushed

\* addNode without the splice
Routing_addNodeKeepsAll(ns, node) ==
    Append(ns, node)

Routing_addNode(ns, node) ==
    LET pushed == Append(ns, node)
    IN  IF Len(pushed) > MaxNodes
        THEN SubSeq(pushed, 2, Len(pushed))
        ELSE pushed

\* the first node with the address of the given one is spliced off
Routing_deleteNode(ns, node) ==
    LET matches == {i \in 1..Len(ns) : ns[i].address = node.address}
        i == CHOOSE i \in matches : \A j \in matches : i <= j
    IN  IF matches = {} THEN [nodes |-> ns, ret |-> FALSE]
        ELSE [nodes |-> SubSeq(ns, 1, i - 1) \o SubSeq(ns, i + 1, Len(ns)),
              ret |-> TRUE]

\* the splice is made on the array that store.get returned and nothing is
\* written back: it reaches the stored list when the store hands out the
\* array it holds (byReference), and is lost when it hands out a copy
RoutingTable_deleteNode(ns, node, byReference) ==
    LET matches == {i \in 1..Len(ns) : ns[i].address = node.address}
        i == CHOOSE i \in matches : \A j \in matches : i <= j
    IN  IF matches = {} THEN [nodes |-> ns, ret |-> FALSE]
        ELSE [nodes |-> IF byReference
                        THEN SubSeq(ns, 1, i - 1)
                                \o SubSeq(ns, i + 1, Len(ns))
                        ELSE ns,
              ret |-> TRUE]

\* nodeList.push(node) for every chain of the node that is the blockchain
RECURSIVE nodeListOf(_, _)
nodeListOf(blockchain, ns) ==
    IF Len(ns) = 0 THEN << >>
    ELSE [i \in 1..Cardinality({c \in 1..Len(ns[1].chains) :
                                   ns[1].chains[c] = blockchain}) |-> ns[1]]
            \o nodeListOf(blockchain, Tail(ns))

RoutingTable_filterNodes(blockchain, ns) ==
    LET nodeList == nodeListOf(blockchain, ns)
    IN  ns

Routing_filterNodes(own, blockchain, ns) ==
    LET nodeList == nodeListOf(blockchain, ns)
    IN  IF Len(own) < 1 THEN loadLocalNodes
        ELSE ns

RpcErrorResponse(code, message) ==
    [type |-> "RpcErrorResponse", code |-> code, message |-> message]

RpcError(code, message) ==
    [type |-> "RpcError", code |-> code, message |-> message]

\* array[index] with index counted from 0: undefined outside the array
elementAt(array, index) ==
    IF index + 1 \in 1..Len(array) THEN array[index + 1] ELSE Undefined

\* the values Math.floor(Math.random() * length) can have
randomIndexes(length) ==
    IF length = 0 THEN {0} ELSE 0..(length - 1)

\* the length of an array is never below 0, so the branch that loads the
\* local nodes and picks one is never taken
Routing_getNode(ns) ==
    IF Len(ns) < 0 THEN loadLocalNodes
    ELSE RpcErrorResponse("101", "Node not found in routing table.")

RoutingTable_getNode(ns, random) ==
    IF Len(ns) < 0
    THEN RpcError("101", "Node not found in routing table.")
    ELSE elementAt(ns, random)

\* return node is the return of the forEach callback, which forEach
\* drops: every call reaches the throw
Routing_readNode(ns, publicKey) ==
    LET returned == {i \in 1..Len(ns) : ns[i].address = publicKey}
    IN  Thrown("Node not found in routing table.")

\* the last node whose upper-cased address is the given string
RoutingTable_readNode(ns, address) ==
    LET matches == {i \in 1..Len(ns) : toUpperCase(ns[i].address) = address}
        requestedNode ==
            IF matches = {} THEN Undefined
            ELSE ns[CHOOSE i \in matches : \A j \in matches : j <= i]
    IN  IF typeGuard(requestedNode, "Node") THEN requestedNode
        ELSE Thrown("Node not found in routing table.")

\* random is Math.floor(Math.random() * this.nodes.length), whatever the
\* list that is indexed; on an empty table filterNodes throws from
\* loadLocalNodes and the exception passes through
Routing_readNodeFrom(own, blockchain, ns, random) ==
    LET filteredNodes == Routing_filterNodes(own, blockchain, ns)
    IN  IF Len(own) < 1 THEN filteredNodes
        ELSE IF Len(filteredNodes) # 0
        THEN elementAt(filteredNodes, random)
        ELSE RpcErrorResponse("",
                 "Failed to read node for the provided blockchain")

Routing_readNodeBy(own, blockchain, random) ==
    LET filteredNodes == Routing_filterNodes(own, blockchain, own)
    IN  IF Len(own) < 1 THEN filteredNodes
        ELSE IF Len(filteredNodes) # 0
        THEN elementAt(filteredNodes, random)
        ELSE RpcErrorResponse("",
                 "Failed to read node for the provided blockchain")

\* --------------------------------------------------------------- pocket
Null == [type |-> "null"]

\* new Error(message + error)
ErrorFrom(message, error) ==
    [type |-> "Error", message |-> message, error |-> error]

\* a service node: the fields isEqual compares, and the address that tells
\* two nodes of one network apart
ServiceNode(ipPort, network, netID) ==
    [type |-> "Node", ipPort |-> ipPort, network |-> network,
     netID |-> netID]

isEqual(node, netID, network) ==
    node.netID = netID /\ node.network = network

\* two nodes of network 1 with netID 1 and one with netID 2
ServiceNodes ==
    {ServiceNode(1, 1, 1), ServiceNode(2, 1, 1), ServiceNode(3, 1, 2)}

\* the netIDs asked for: 3 is the netID of no node
NetIDs == {1, 2, 3}

Networks == {1}

\* what dispatch.retrieveServiceNodes() resolves to: a list of nodes, an
\* empty list or an Error; or it throws
DispatchOutcomes ==
    {Array(<<n>>) : n \in ServiceNodes}
        \cup {Array(<<n, m>>) : n, m \in ServiceNodes}
        \cup {Array(<< >>), Error("Failed to retrieve service nodes"),
              Thrown("timeout of 10000ms exceeded")}

Relay(blockchain, netID, data) ==
    [type |-> "Relay", blockchain |-> blockchain, netID |-> netID,
     data |-> data]

\* Relay.isValid: every property is set
isValid(relay) ==
    relay.data # ""

\* the relay argument: null, a relay without data, a relay for nodes the
\* dispatcher knows and one for a netID that no node has
Relays ==
    {Null, Relay(1, 1, ""), Relay(1, 1, "{}"), Relay(1, 2, "{}"),
     Relay(1, 3, "{}")}

\* what node.sendRelay(relay) resolves to: the response or an Error; or it
\* throws
NodeOutcomes ==
    {[type |-> "String", value |-> "response"],
     Error("Failed to send relay"), Thrown("Network Error")}

\* the callback argument: none, a function that returns, and a function
\* that throws whenever it is called
Callbacks == {"none", "returns", "throws"}

CallbackError == Error("thrown by the callback")

\* if (callback) { callback(...args); return } else { return value }
\* inside a catch block: what a throwing callback throws leaves the method
inCatch(callback, args, value) ==
    IF callback = "none"
    THEN [callbacks |-> << >>, ret |-> value, rejected |-> FALSE]
    ELSE [callbacks |-> <<args>>, ret |-> Undefined,
          rejected |-> callback = "throws"]

\* the same inside the try block: what a throwing callback throws is
\* caught, and the catch block runs next, caught being the arguments it
\* has for the callback
inTry(callback, args, value, caught) ==
    IF callback = "throws"
    THEN LET again == inCatch(callback, caught, caught[1])
         IN  [callbacks |-> <<args>> \o again.callbacks,
              ret |-> again.ret, rejected |-> again.rejected]
    ELSE inCatch(callback, args, value)

\* configuration.nodesIsEmpty()
nodesIsEmpty(configurationNodes) ==
    Len(configurationNodes) = 0

\* retrieveNodes from the answer of the dispatcher on: the nodes of the
\* configuration it leaves, and what it reports
retrieveNodes(configurationNodes, dispatched, callback) ==
    LET caught(error) ==
            <<ErrorFrom("Failed to retrieve a list of nodes with error: ",
                        error), Null>>
    IN  IF dispatched.type = "thrown"
        THEN [nodes |-> configurationNodes,
              out |-> inCatch(callback, caught(dispatched.error),
                              caught(dispatched.error)[1])]
        ELSE IF dispatched.type # "Error" /\ Len(dispatched.items) # 0
        THEN [nodes |-> dispatched.items,
              out |-> inTry(callback, <<Null, dispatched>>, dispatched,
                            caught(CallbackError))]
        ELSE [nodes |-> configurationNodes,
              out |-> inTry(callback,
                            <<Error("Failed to retrieve a list of nodes."),
                              Null>>,
                            Error("Failed to retrieve a list of nodes."),
                            caught(CallbackError))]

\* the nodes of the configuration that getNode pushes to its list
matching(configurationNodes, netID, network) ==
    LET Test(node) == isEqual(node, netID, network)
    IN  SelectSeq(configurationNodes, Test)

\* getNode picking among all the nodes of the configuration
getNodeFromUnfiltered(configurationNodes, netID, network, random) ==
    IF Len(configurationNodes) <= 0 THEN Null
    ELSE elementAt(configurationNodes, random)

\* getNode from the forEach on, random being
\* Math.floor(Math.random() * nodes.length)
getNodeFrom(configurationNodes, netID, network, random) ==
    LET found == matching(configurationNodes, netID, network)
    IN  IF Len(found) <= 0 THEN Null
        ELSE elementAt(found, random)

\* getNode from the response of retrieveNodes on: an Error is thrown and
\* caught, a list is set as the nodes of the configuration
getNodeAfterRetrieve(configNodes, response, netID, network, random) ==
    IF response.type = "Error"
    THEN [nodes |-> configNodes, ret |-> Null]
    ELSE [nodes |-> response.items,
          ret |-> getNodeFrom(response.items, netID, network, random)]

\* the arguments and the value of the catch block of sendRelay
sendRelayCaught(error) ==
    <<ErrorFrom("Failed to send relay with error: ", error)>>

\* sendRelay up to getNode: the report it makes, or Undefined when it
\* goes on to getNode
sendRelayChecks(relay, callback) ==
    IF relay = Null
    THEN inTry(callback,
               <<Error("Relay is null or data field is missing")>>,
               Error("Relay is null or data field is missing"),
               sendRelayCaught(CallbackError))
    ELSE IF ~isValid(relay)
    THEN inTry(callback,
               <<Error("Relay is missing a property, please verify all properties.")>>,
               Error("Relay is missing a property, please verify all properties."),
               sendRelayCaught(CallbackError))
    ELSE Undefined

\* sendRelay from the response of node.sendRelay on
sendRelayAfterNode(response, callback) ==
    IF response.type = "thrown"
    THEN inCatch(callback, sendRelayCaught(response.error),
                 sendRelayCaught(response.error)[1])
    ELSE IF response.type # "Error"
    THEN inTry(callback, <<Null, response>>, response,
               sendRelayCaught(CallbackError))
    ELSE inTry(callback, <<response>>, response,
               sendRelayCaught(CallbackError))

\* a Pocket after its constructor: a configuration without nodes, no call
\* in progress
NewPocket ==
    [nodes |-> << >>, call |-> [pc |-> "idle"],
     retrieve |-> [pc |-> "idle"]]

\* ---------------------------------------------------------------- state
VARIABLES
    store,             \* the IKVStore: key -> Account or Array of addresses
    unlockedAccounts,  \* addressHex -> UnlockedAccount
    timers,            \* addressHex -> number of pending setTimeout
                       \*   callbacks that will lock it
    indefinite,        \* the addresses whose entry was written by an
                       \*   unlock with period 0
    lockedSince,       \* addressHex -> how many of its pending timers
                       \*   were scheduled before the last lockAccount
                       \*   call that locked it
    imported,          \* addressHex -> [privateKey, passphrase] of the
                       \*   import that wrote the record now in the store
    lastCall,          \* the last call and what it returned
    other,             \* a second Keybase constructed over the same store:
                       \*   its unlocked table and its pending timers
    race,              \* a deleteAccount and an updateAccountPassphrase
                       \*   call in progress: where each one is, with its
                       \*   arguments and local variables
    nodes,             \* Routing.nodes
    tableNodes,        \* the node list a RoutingTable keeps in its store
                       \*   under nodesKey
    pocket             \* a Pocket: configuration.nodes, and where its
                       \*   sendRelay or getNode call and its
                       \*   retrieveNodes call in progress are

vars ==
    <<store, unlockedAccounts, timers, indefinite, lockedSince, imported,
      lastCall, other, race, nodes, tableNodes, pocket>>

\* the state that is no field of this Keybase and not its store
outside == <<other, race, nodes, tableNodes, pocket>>

\* the state of the Keybase instances and their store
keybases ==
    <<store, unlockedAccounts, timers, indefinite, lockedSince, imported,
      other, race>>

\* ---------------------------------------------------- private interface
\* getAccountFromStore going to the store without validating the address
getAccountFromStoreUnvalidated(st, addressHex) ==
    LET account ==
            StoreGet(st, generateAccountStoreKeyFromAddressHex(addressHex))
    IN  IF account = Undefined THEN Error("Account not found")
        ELSE IF typeGuard(account, "Account") THEN account
        ELSE Error("Error fetching account from store")

getAccountFromStore(st, addressHex) ==
    LET validationError == validateAddressHex(addressHex)
        account ==
            StoreGet(st, generateAccountStoreKeyFromAddressHex(addressHex))
    IN  IF validationError # Undefined THEN validationError
        ELSE IF account = Undefined THEN Error("Account not found")
        ELSE IF typeGuard(account, "Account") THEN account
        ELSE Error("Error fetching account from store")

\* the number of store.get calls getAccountFromStore makes
getAccountFromStoreGets(addressHex) ==
    IF validateAddressHex(addressHex) # Undefined THEN 0 ELSE 1

getAccount(st, addressHex) == getAccountFromStore(st, addressHex)

\* unlockAccountFromPersistence without the comparison of the decrypted
\* address with the stored one
unlockAccountFromPersistenceUnchecked(st, addressHex, passphrase) ==
    LET validationError == validateAddressHex(addressHex)
        accountOrError == getAccount(st, addressHex)
        account == accountOrError
        key == pbkdf2Sync(passphrase)
        encryptedPKBytes == hexToBytes(account.encryptedPrivateKeyHex)
        decryptedPKHex == hexFromBytes(ctr(key, encryptedPKBytes))
    IN  IF validationError # Undefined THEN validationError
        ELSE IF typeGuard(accountOrError, "Account")
        THEN UnlockedAccount(account, hexToBytes(decryptedPKHex))
        ELSE IF typeGuard(accountOrError, "Error") THEN accountOrError
        ELSE Error("Unknown error getting account")

\* unlockAccountFromPersistence handing out the bytes of the record as the
\* private key, without decrypting them
unlockAccountFromPersistenceEncryptedKey(st, addressHex, passphrase) ==
    LET validationError == validateAddressHex(addressHex)
        accountOrError == getAccount(st, addressHex)
        account == accountOrError
        key == pbkdf2Sync(passphrase)
        encryptedPKBytes == hexToBytes(account.encryptedPrivateKeyHex)
        decryptedPKHex == hexFromBytes(ctr(key, encryptedPKBytes))
        decryptedPublicKey ==
            SubSeq(decryptedPKHex,
                   Len(decryptedPKHex) \div 2 + 1, Len(decryptedPKHex))
        decryptedAddress == addressFromPublickey(hexToBytes(decryptedPublicKey))
    IN  IF validationError # Undefined THEN validationError
        ELSE IF typeGuard(accountOrError, "Account")
        THEN IF account.addressHex # hexFromBytes(decryptedAddress)
             THEN Error("Wrong passphrase for account")
             ELSE UnlockedAccount(account, encryptedPKBytes)
        ELSE IF typeGuard(accountOrError, "Error") THEN accountOrError
        ELSE Error("Unknown error getting account")

unlockAccountFromPersistence(st, addressHex, passphrase) ==
    LET validationError == validateAddressHex(addressHex)
        accountOrError == getAccount(st, addressHex)
        account == accountOrError
        key == pbkdf2Sync(passphrase)
        encryptedPKBytes == hexToBytes(account.encryptedPrivateKeyHex)
        decryptedPKHex == hexFromBytes(ctr(key, encryptedPKBytes))
        decryptedPublicKey ==
            SubSeq(decryptedPKHex,
                   Len(decryptedPKHex) \div 2 + 1, Len(decryptedPKHex))
        decryptedAddress == addressFromPublickey(hexToBytes(decryptedPublicKey))
    IN  IF validationError # Undefined THEN validationError
        ELSE IF typeGuard(accountOrError, "Account")
        THEN IF account.addressHex # hexFromBytes(decryptedAddress)
             THEN Error("Wrong passphrase for account")
             ELSE UnlockedAccount(account, hexToBytes(decryptedPKHex))
        ELSE IF typeGuard(accountOrError, "Error") THEN accountOrError
        ELSE Error("Unknown error getting account")

\* persistAccount putting the address at the front of the index
persistAccountUnshift(st, account) ==
    LET accountKey == generateAccountStoreKey(account)
        st1 == StoreAdd(st, accountKey, account)
        accountIndex == StoreGet(st1, ACCOUNT_INDEX_KEY)
        items ==
            IF typeGuard(accountIndex, "Array") THEN accountIndex.items
            ELSE << >>
    IN  IF ~typeGuard(accountIndex, "Array") /\ accountIndex # Undefined
        THEN [store |-> st1, ret |-> Error("Error fetching the account index")]
        ELSE [store |-> StoreAdd(st1, ACCOUNT_INDEX_KEY,
                                 Array(<<account.addressHex>> \o items)),
              ret |-> Undefined]

\* persistAccount, removeAccountRecord and importAccount return the store
\* they leave behind together with their return value
persistAccount(st, account) ==
    LET accountKey == generateAccountStoreKey(account)
        st1 == StoreAdd(st, accountKey, account)
        accountIndex == StoreGet(st1, ACCOUNT_INDEX_KEY)
        items ==
            IF typeGuard(accountIndex, "Array") THEN accountIndex.items
            ELSE << >>
    IN  IF ~typeGuard(accountIndex, "Array") /\ accountIndex # Undefined
        THEN [store |-> st1, ret |-> Error("Error fetching the account index")]
        ELSE [store |-> StoreAdd(st1, ACCOUNT_INDEX_KEY,
                                 Array(Append(items, account.addressHex))),
              ret |-> Undefined]

\* accountIndex.indexOf(addressHex, 0): first position (1-based), 0 if none
indexOf(items, addressHex) ==
    IF \E i \in 1..Len(items) : items[i] = addressHex
    THEN CHOOSE i \in 1..Len(items) :
            /\ items[i] = addressHex
            /\ \A j \in 1..(i - 1) : items[j] # addressHex
    ELSE 0

\* accountIndex.splice(index, 1)
splice(items, index) ==
    SubSeq(items, 1, index - 1) \o SubSeq(items, index + 1, Len(items))

\* removeAccountRecord emptying the index
removeAccountRecordClearsIndex(st, account) ==
    LET accountKey == generateAccountStoreKey(account)
        st1 == StoreRemove(st, accountKey)
        accountIndex == StoreGet(st1, ACCOUNT_INDEX_KEY)
    IN  IF typeGuard(accountIndex, "Array")
        THEN [store |-> StoreAdd(st1, ACCOUNT_INDEX_KEY, Array(<< >>)),
              ret |-> Undefined]
        ELSE [store |-> st1, ret |-> Undefined]

removeAccountRecord(st, account) ==
    LET accountKey == generateAccountStoreKey(account)
        st1 == StoreRemove(st, accountKey)
        accountIndex == StoreGet(st1, ACCOUNT_INDEX_KEY)
        index == indexOf(accountIndex.items, account.addressHex)
    IN  IF typeGuard(accountIndex, "Array")
        THEN [store |-> StoreAdd(st1, ACCOUNT_INDEX_KEY,
                                 Array(IF index > 0
                                       THEN splice(accountIndex.items, index)
                                       ELSE accountIndex.items)),
              ret |-> Undefined]
        ELSE [store |-> st1, ret |-> Undefined]

\* importAccount deriving its key with two iterations where
\* unlockAccountFromPersistence uses one
importAccountOtherKey(st, privateKey, passphrase) ==
    LET publicKey == publicKeyFromPrivate(privateKey)
        key == (pbkdf2Sync(passphrase) + 1) % 4
        encryptedPKHex == hexFromBytes(ctr(key, privateKey))
        account == Account(publicKey, encryptedPKHex)
        persisted == persistAccount(st, account)
    IN  IF Len(passphrase) = 0
        THEN [store |-> st, ret |-> Error("Empty passphrase")]
        ELSE IF ~validatePrivateKey(privateKey)
        THEN [store |-> st, ret |-> Error("Invalid private key")]
        ELSE IF typeGuard(persisted.ret, "Error") THEN persisted
        ELSE [store |-> persisted.store, ret |-> account]

\* importAccount handing the unlocked account, private key included, to
\* persistAccount
importAccountStoresUnlocked(st, privateKey, passphrase) ==
    LET publicKey == publicKeyFromPrivate(privateKey)
        key == pbkdf2Sync(passphrase)
        encryptedPKHex == hexFromBytes(ctr(key, privateKey))
        account == Account(publicKey, encryptedPKHex)
        persisted == persistAccount(st, UnlockedAccount(account, privateKey))
    IN  IF Len(passphrase) = 0
        THEN [store |-> st, ret |-> Error("Empty passphrase")]
        ELSE IF ~validatePrivateKey(privateKey)
        THEN [store |-> st, ret |-> Error("Invalid private key")]
        ELSE IF typeGuard(persisted.ret, "Error") THEN persisted
        ELSE [store |-> persisted.store, ret |-> account]

\* importAccount persisting the account before it looks at its arguments
importAccountPersistsFirst(st, privateKey, passphrase) ==
    LET publicKey == publicKeyFromPrivate(privateKey)
        key == pbkdf2Sync(passphrase)
        encryptedPKHex == hexFromBytes(ctr(key, privateKey))
        account == Account(publicKey, encryptedPKHex)
        persisted == persistAccount(st, account)
    IN  IF Len(passphrase) = 0
        THEN [store |-> persisted.store, ret |-> Error("Empty passphrase")]
        ELSE IF ~validatePrivateKey(privateKey)
        THEN [store |-> persisted.store, ret |-> Error("Invalid private key")]
        ELSE IF typeGuard(persisted.ret, "Error") THEN persisted
        ELSE [store |-> persisted.store, ret |-> account]

importAccount(st, privateKey, passphrase) ==
    LET publicKey == publicKeyFromPrivate(privateKey)
        key == pbkdf2Sync(passphrase)
        encryptedPKHex == hexFromBytes(ctr(key, privateKey))
        account == Account(publicKey, encryptedPKHex)
        persisted == persistAccount(st, account)
    IN  IF Len(passphrase) = 0
        THEN [store |-> st, ret |-> Error("Empty passphrase")]
        ELSE IF ~validatePrivateKey(privateKey)
        THEN [store |-> st, ret |-> Error("Invalid private key")]
        ELSE IF typeGuard(persisted.ret, "Error") THEN persisted
        ELSE [store |-> persisted.store, ret |-> account]

\* ------------------------------------------------------- state accessors
IndexItems(st) ==
    IF ACCOUNT_INDEX_KEY \in DOMAIN st THEN st[ACCOUNT_INDEX_KEY].items
    ELSE << >>

HasRecord(st, addressHex) ==
    generateAccountStoreKeyFromAddressHex(addressHex) \in DOMAIN st

Occurrences(items, addressHex) ==
    Cardinality({i \in 1..Len(items) : items[i] = addressHex})

isUnlocked(table, addressHex) == addressHex \in DOMAIN table

\* the record of what was imported, kept next to the store
Imported(imp, st, call) ==
    [a \in {a \in Addresses : HasRecord(st, a)} |->
        IF typeGuard(call.ret, "Account") /\ call.ret.addressHex = a
        THEN [privateKey |-> call.privateKey, passphrase |-> call.passphrase]
        ELSE imp[a]]

\* no call is in progress: the caller has taken the last result
Idle == [op |-> "idle"]

\* neither of the two calls that may overlap has been started
NoRace == [delete |-> [pc |-> "idle"], update |-> [pc |-> "idle"]]

\* ----------------------------------------------------------------- Init
Init ==
    /\ store = EmptyStore
    /\ unlockedAccounts = [a \in {} |-> Undefined]
    /\ timers = [a \in Addresses |-> 0]
    /\ indefinite = {}
    /\ lockedSince = [a \in Addresses |-> 0]
    /\ imported = [a \in {} |-> Undefined]
    /\ lastCall = Idle
    /\ other = [unlockedAccounts |-> [a \in {} |-> Undefined],
                timers |-> [a \in Addresses |-> 0]]
    /\ race = NoRace
    /\ nodes = InitialNodes
    /\ tableNodes = InitialNodes
    /\ pocket = NewPocket

\* ------------------------------------------------------ public interface
\* Each method is an operator from the state it reads to the state it
\* leaves behind and its return value.
createAccount(st, passphrase, seed) ==
    IF Len(passphrase) = 0
    THEN [store |-> st, ret |-> Error("Empty passphrase")]
    ELSE importAccount(st, MakeKeypair(seed).privateKey, passphrase)

\* deleteAccount removing the record whether or not the unlock succeeded
deleteAccountUngated(st, addressHex, passphrase) ==
    LET validationError == validateAddressHex(addressHex)
        accountOrError == getAccount(st, addressHex)
    IN  IF validationError # Undefined
        THEN [store |-> st, ret |-> validationError]
        ELSE IF typeGuard(accountOrError, "Account")
        THEN removeAccountRecord(st, accountOrError)
        ELSE [store |-> st, ret |-> accountOrError]

deleteAccount(st, addressHex, passphrase) ==
    LET validationError == validateAddressHex(addressHex)
        unlockedAccountOrError ==
            unlockAccountFromPersistence(st, addressHex, passphrase)
    IN  IF validationError # Undefined
        THEN [store |-> st, ret |-> validationError]
        ELSE IF typeGuard(unlockedAccountOrError, "UnlockedAccount")
        THEN removeAccountRecord(st, unlockedAccountOrError)
        ELSE IF typeGuard(unlockedAccountOrError, "Error")
        THEN [store |-> st, ret |-> unlockedAccountOrError]
        ELSE [store |-> st, ret |-> Error("Unknown error decrypting Account")]

\* updateAccountPassphrase importing again under the old passphrase
updateAccountPassphraseKeepsOld(st, addressHex, passphrase, newPassphrase) ==
    LET validationError == validateAddressHex(addressHex)
        unlockedAccountOrError ==
            unlockAccountFromPersistence(st, addressHex, passphrase)
        unlockedAccount == unlockedAccountOrError
        removed == removeAccountRecord(st, unlockedAccount)
        reimported ==
            importAccount(removed.store, unlockedAccount.privateKey,
                          passphrase)
    IN  IF validationError # Undefined
        THEN [store |-> st, ret |-> validationError,
              reimported |-> Undefined]
        ELSE IF typeGuard(unlockedAccountOrError, "UnlockedAccount")
        THEN [store |-> reimported.store, ret |-> Undefined,
              reimported |-> reimported.ret]
        ELSE [store |-> st, ret |-> unlockedAccountOrError,
              reimported |-> Undefined]

\* importAccount is called without await: its store writes happen before
\* updateAccountPassphrase goes on, but what it returns is a Promise
updateAccountPassphrase(st, addressHex, passphrase, newPassphrase) ==
    LET validationError == validateAddressHex(addressHex)
        unlockedAccountOrError ==
            unlockAccountFromPersistence(st, addressHex, passphrase)
        unlockedAccount == unlockedAccountOrError
        removed == removeAccountRecord(st, unlockedAccount)
        reimported ==
            importAccount(removed.store, unlockedAccount.privateKey,
                          newPassphrase)
        importedAccountOrError == Promise(reimported.ret)
    IN  IF validationError # Undefined
        THEN [store |-> st, ret |-> validationError,
              reimported |-> Undefined]
        ELSE IF typeGuard(unlockedAccountOrError, "UnlockedAccount")
        THEN IF typeGuard(removed.ret, "Error")
             THEN [store |-> removed.store, ret |-> removed.ret,
                   reimported |-> Undefined]
             ELSE [store |-> reimported.store,
                   ret |-> IF typeGuard(importedAccountOrError, "Error")
                           THEN importedAccountOrError
                           ELSE Undefined,
                   reimported |-> reimported.ret]
        ELSE IF typeGuard(unlockedAccountOrError, "Error")
        THEN [store |-> st, ret |-> unlockedAccountOrError,
              reimported |-> Undefined]
        ELSE [store |-> st, ret |-> Error("Unknown error decrypting Account"),
              reimported |-> Undefined]

getUnlockedAccount(st, addressHex, passphrase) ==
    unlockAccountFromPersistence(st, addressHex, passphrase)

sign(st, addressHex, passphrase, payload) ==
    LET unlockedAccountOrError ==
            unlockAccountFromPersistence(st, addressHex, passphrase)
    IN  IF typeGuard(unlockedAccountOrError, "Error")
        THEN unlockedAccountOrError
        ELSE Sign(payload, unlockedAccountOrError.privateKey)

exportAccount(st, addressHex, passphrase) ==
    LET unlockedAccountOrError ==
            unlockAccountFromPersistence(st, addressHex, passphrase)
    IN  IF typeGuard(unlockedAccountOrError, "Error")
        THEN unlockedAccountOrError
        ELSE [type |-> "Buffer", bytes |-> unlockedAccountOrError.privateKey]

\* for (const index in accountIndex): the accounts of the index entries in
\* order, or the first result of getAccount that is not an Account
RECURSIVE listAccountsFrom(_, _, _)
listAccountsFrom(st, accountIndex, result) ==
    IF Len(accountIndex) = 0 THEN Array(result)
    ELSE LET accountOrError == getAccount(st, accountIndex[1])
         IN  IF typeGuard(accountOrError, "Account")
             THEN listAccountsFrom(st, Tail(accountIndex),
                                   Append(result, accountOrError))
             ELSE accountOrError

\* listAccounts skipping the index entries whose record cannot be read
listAccountsSkipping(st) ==
    LET accountIndex == StoreGet(st, ACCOUNT_INDEX_KEY)
        items ==
            IF typeGuard(accountIndex, "Array") THEN accountIndex.items
            ELSE << >>
        Readable(a) == typeGuard(getAccount(st, a), "Account")
        readable == SelectSeq(items, Readable)
    IN  Array([i \in 1..Len(readable) |-> getAccount(st, readable[i])])

listAccounts(st) ==
    LET accountIndex == StoreGet(st, ACCOUNT_INDEX_KEY)
    IN  IF typeGuard(accountIndex, "Array")
        THEN listAccountsFrom(st, accountIndex.items, << >>)
        ELSE IF accountIndex = Undefined
        THEN listAccountsFrom(st, << >>, << >>)
        ELSE Error("Error fetching account index")

\* signWithUnlockedAccount without the isUnlocked test: an address with no
\* entry signs with the undefined key
signWithUnlockedAccountUnguarded(table, addressHex, payload) ==
    LET validationError == validateAddressHex(addressHex)
    IN  IF validationError # Undefined THEN validationError
        ELSE Sign(payload, IF isUnlocked(table, addressHex)
                           THEN table[addressHex].privateKey
                           ELSE << >>)

signWithUnlockedAccount(table, addressHex, payload) ==
    LET validationError == validateAddressHex(addressHex)
    IN  IF validationError # Undefined THEN validationError
        ELSE IF ~isUnlocked(table, addressHex)
        THEN Error("Account is not unlocked")
        ELSE Sign(payload, table[addressHex].privateKey)

\* unlockAccount calling setTimeout before it looks at the result of the
\* decryption
unlockAccountTimerFirst(st, table, tms, addressHex, passphrase, unlockPeriod) ==
    LET unlockedAccountOrError ==
            unlockAccountFromPersistence(st, addressHex, passphrase)
        unlockedAccount == unlockedAccountOrError
        scheduled ==
            IF unlockPeriod > 0 /\ addressHex \in DOMAIN tms
            THEN [tms EXCEPT ![addressHex] = @ + 1]
            ELSE tms
    IN  IF typeGuard(unlockedAccountOrError, "Error")
        THEN [table |-> table, timers |-> scheduled,
              ret |-> unlockedAccountOrError]
        ELSE [table |-> StoreAdd(table, unlockedAccount.addressHex,
                                 unlockedAccount),
              timers |-> scheduled,
              ret |-> Undefined]

unlockAccount(st, table, tms, addressHex, passphrase, unlockPeriod) ==
    LET unlockedAccountOrError ==
            unlockAccountFromPersistence(st, addressHex, passphrase)
        unlockedAccount == unlockedAccountOrError
    IN  IF typeGuard(unlockedAccountOrError, "Error")
        THEN [table |-> table, timers |-> tms, ret |-> unlockedAccountOrError]
        ELSE [table |-> StoreAdd(table, unlockedAccount.addressHex,
                                 unlockedAccount),
              timers |-> IF unlockPeriod > 0
                         THEN [tms EXCEPT ![addressHex] = @ + 1]
                         ELSE tms,
              ret |-> Undefined]

\* lockAccount emptying the unlocked table when the address has no entry
lockAccountMissClears(table, addressHex) ==
    LET validationError == validateAddressHex(addressHex)
    IN  IF validationError # Undefined
        THEN [table |-> table, ret |-> validationError]
        ELSE IF ~isUnlocked(table, addressHex)
        THEN [table |-> EmptyStore, ret |-> Error("Account is not unlocked")]
        ELSE [table |-> StoreRemove(table, addressHex), ret |-> Undefined]

\* lockAccount emptying the whole unlocked table
lockAccountClearsAll(table, addressHex) ==
    LET validationError == validateAddressHex(addressHex)
    IN  IF validationError # Undefined
        THEN [table |-> table, ret |-> validationError]
        ELSE IF ~isUnlocked(table, addressHex)
        THEN [table |-> table, ret |-> Error("Account is not unlocked")]
        ELSE [table |-> EmptyStore, ret |-> Undefined]

\* lockAccount without the delete
lockAccountKeepsEntry(table, addressHex) ==
    LET validationError == validateAddressHex(addressHex)
    IN  IF validationError # Undefined
        THEN [table |-> table, ret |-> validationError]
        ELSE IF ~isUnlocked(table, addressHex)
        THEN [table |-> table, ret |-> Error("Account is not unlocked")]
        ELSE [table |-> table, ret |-> Undefined]

lockAccount(table, addressHex) ==
    LET validationError == validateAddressHex(addressHex)
    IN  IF validationError # Undefined
        THEN [table |-> table, ret |-> validationError]
        ELSE IF ~isUnlocked(table, addressHex)
        THEN [table |-> table, ret |-> Error("Account is not unlocked")]
        ELSE [table |-> StoreRemove(table, addressHex), ret |-> Undefined]

RECURSIVE Pending(_, _)
Pending(tms, as) ==
    IF as = {} THEN 0
    ELSE LET a == CHOOSE x \in as : TRUE
         IN  tms[a] + Pending(tms, as \ {a})

\* -------------------------------------------------------------- actions
CreateAccount(passphrase, seed) ==
    LET r == createAccount(store, passphrase, seed)
    IN  /\ lastCall = Idle
        /\ Len(IndexItems(r.store)) <= MaxIndexLen
        /\ store' = r.store
        /\ imported' = Imported(imported, r.store,
                                [ret |-> r.ret,
                                 privateKey |-> MakeKeypair(seed).privateKey,
                                 passphrase |-> passphrase])
        /\ lastCall' = [op |-> "createAccount", passphrase |-> passphrase,
                        ret |-> r.ret]
        /\ UNCHANGED <<unlockedAccounts, timers, indefinite, lockedSince>>
        /\ UNCHANGED outside

ImportAccount(privateKey, passphrase) ==
    LET r == importAccount(store, privateKey, passphrase)
    IN  /\ lastCall = Idle
        /\ Len(IndexItems(r.store)) <= MaxIndexLen
        /\ store' = r.store
        /\ imported' = Imported(imported, r.store,
                                [ret |-> r.ret, privateKey |-> privateKey,
                                 passphrase |-> passphrase])
        /\ lastCall' = [op |-> "importAccount", privateKey |-> privateKey,
                        passphrase |-> passphrase, ret |-> r.ret]
        /\ UNCHANGED <<unlockedAccounts, timers, indefinite, lockedSince>>
        /\ UNCHANGED outside

DeleteAccount(addressHex, passphrase) ==
    LET r == deleteAccount(store, addressHex, passphrase)
    IN  /\ lastCall = Idle
        /\ store' = r.store
        /\ imported' = Imported(imported, r.store, [ret |-> Undefined])
        /\ lastCall' = [op |-> "deleteAccount", addressHex |-> addressHex,
                        passphrase |-> passphrase, ret |-> r.ret]
        /\ UNCHANGED <<unlockedAccounts, timers, indefinite, lockedSince>>
        /\ UNCHANGED outside

UpdateAccountPassphrase(addressHex, passphrase, newPassphrase) ==
    LET r == updateAccountPassphrase(store, addressHex, passphrase,
                                     newPassphrase)
    IN  /\ lastCall = Idle
        /\ store' = r.store
        /\ imported' =
              Imported(imported, r.store,
                       [ret |-> r.reimported,
                        privateKey |->
                            IF typeGuard(r.reimported, "Account")
                            THEN unlockAccountFromPersistence(
                                     store, addressHex, passphrase).privateKey
                            ELSE << >>,
                        passphrase |-> newPassphrase])
        /\ lastCall' = [op |-> "updateAccountPassphrase",
                        addressHex |-> addressHex, passphrase |-> passphrase,
                        newPassphrase |-> newPassphrase, ret |-> r.ret]
        /\ UNCHANGED <<unlockedAccounts, timers, indefinite, lockedSince>>
        /\ UNCHANGED outside

GetAccount(addressHex) ==
    /\ lastCall = Idle
    /\ lastCall' = [op |-> "getAccount", addressHex |-> addressHex,
                    gets |-> getAccountFromStoreGets(addressHex),
                    ret |-> getAccount(store, addressHex)]
    /\ UNCHANGED <<store, unlockedAccounts, timers, indefinite, lockedSince,
                   imported>>
    /\ UNCHANGED outside

GetUnlockedAccount(addressHex, passphrase) ==
    /\ lastCall = Idle
    /\ lastCall' = [op |-> "getUnlockedAccount", addressHex |-> addressHex,
                    passphrase |-> passphrase,
                    ret |-> getUnlockedAccount(store, addressHex, passphrase)]
    /\ UNCHANGED <<store, unlockedAccounts, timers, indefinite, lockedSince,
                   imported>>
    /\ UNCHANGED outside

\* sign leaving the account it decrypted in the unlocked table
SignCallKeepsUnlocked(addressHex, passphrase, payload) ==
    LET u == unlockAccountFromPersistence(store, addressHex, passphrase)
    IN  /\ lastCall = Idle
        /\ lastCall' = [op |-> "sign", addressHex |-> addressHex,
                        passphrase |-> passphrase,
                        ret |-> sign(store, addressHex, passphrase, payload)]
        /\ unlockedAccounts' =
              IF typeGuard(u, "UnlockedAccount")
              THEN [a \in DOMAIN unlockedAccounts \cup {addressHex} |->
                       IF a = addressHex THEN u ELSE unlockedAccounts[a]]
              ELSE unlockedAccounts
        /\ UNCHANGED <<store, timers, indefinite, lockedSince, imported>>
        /\ UNCHANGED outside

SignCall(addressHex, passphrase, payload) ==
    /\ lastCall = Idle
    /\ lastCall' = [op |-> "sign", addressHex |-> addressHex,
                    passphrase |-> passphrase,
                    ret |-> sign(store, addressHex, passphrase, payload)]
    /\ UNCHANGED <<store, unlockedAccounts, timers, indefinite, lockedSince,
                   imported>>
    /\ UNCHANGED outside

\* exportAccount unlocking the account as unlockAccount does
ExportAccountUnlocks(addressHex, passphrase) ==
    LET r == unlockAccount(store, unlockedAccounts, timers, addressHex,
                           passphrase, 0)
    IN  /\ lastCall = Idle
        /\ lastCall' = [op |-> "exportAccount", addressHex |-> addressHex,
                        passphrase |-> passphrase,
                        ret |-> exportAccount(store, addressHex, passphrase)]
        /\ unlockedAccounts' = r.table
        /\ timers' = r.timers
        /\ UNCHANGED <<store, indefinite, lockedSince, imported>>
        /\ UNCHANGED outside

ExportAccount(addressHex, passphrase) ==
    /\ lastCall = Idle
    /\ lastCall' = [op |-> "exportAccount", addressHex |-> addressHex,
                    passphrase |-> passphrase,
                    ret |-> exportAccount(store, addressHex, passphrase)]
    /\ UNCHANGED <<store, unlockedAccounts, timers, indefinite, lockedSince,
                   imported>>
    /\ UNCHANGED outside

ListAccounts ==
    /\ lastCall = Idle
    /\ lastCall' = [op |-> "listAccounts", ret |-> listAccounts(store)]
    /\ UNCHANGED <<store, unlockedAccounts, timers, indefinite, lockedSince,
                   imported>>
    /\ UNCHANGED outside

SignWithUnlockedAccount(addressHex, payload) ==
    /\ lastCall = Idle
    /\ lastCall' = [op |-> "signWithUnlockedAccount",
                    addressHex |-> addressHex, payload |-> payload,
                    ret |-> signWithUnlockedAccount(unlockedAccounts,
                                                    addressHex, payload)]
    /\ UNCHANGED <<store, unlockedAccounts, timers, indefinite, lockedSince,
                   imported>>
    /\ UNCHANGED outside

UnlockAccount(addressHex, passphrase, unlockPeriod) ==
    LET r == unlockAccount(store, unlockedAccounts, timers, addressHex,
                           passphrase, unlockPeriod)
    IN  /\ lastCall = Idle
        /\ Pending(r.timers, Addresses) <= MaxTimers
        /\ unlockedAccounts' = r.table
        /\ timers' = r.timers
        /\ indefinite' =
              IF r.ret # Undefined THEN indefinite
              ELSE IF unlockPeriod > 0 THEN indefinite \ {addressHex}
              ELSE indefinite \cup {addressHex}
        /\ lastCall' = [op |-> "unlockAccount", addressHex |-> addressHex,
                        passphrase |-> passphrase,
                        unlockPeriod |-> unlockPeriod, ret |-> r.ret]
        /\ UNCHANGED <<store, lockedSince, imported>>
        /\ UNCHANGED outside

IsUnlocked(addressHex) ==
    /\ lastCall = Idle
    /\ lastCall' = [op |-> "isUnlocked", addressHex |-> addressHex,
                    ret |-> isUnlocked(unlockedAccounts, addressHex)]
    /\ UNCHANGED <<store, unlockedAccounts, timers, indefinite, lockedSince,
                   imported>>
    /\ UNCHANGED outside

\* lockAccount removing the record of the account from the store as well
LockAccountRemovesRecord(addressHex) ==
    LET r == lockAccount(unlockedAccounts, addressHex)
    IN  /\ lastCall = Idle
        /\ unlockedAccounts' = r.table
        /\ indefinite' = indefinite \cap DOMAIN r.table
        /\ lockedSince' =
              IF r.ret = Undefined
              THEN [lockedSince EXCEPT ![addressHex] = timers[addressHex]]
              ELSE lockedSince
        /\ lastCall' = [op |-> "lockAccount", addressHex |-> addressHex,
                        ret |-> r.ret]
        /\ store' = IF r.ret = Undefined
                    THEN StoreRemove(store,
                             generateAccountStoreKeyFromAddressHex(addressHex))
                    ELSE store
        /\ UNCHANGED <<timers, imported>>
        /\ UNCHANGED outside

LockAccount(addressHex) ==
    LET r == lockAccount(unlockedAccounts, addressHex)
    IN  /\ lastCall = Idle
        /\ unlockedAccounts' = r.table
        /\ indefinite' = indefinite \cap DOMAIN r.table
        /\ lockedSince' =
              IF r.ret = Undefined
              THEN [lockedSince EXCEPT ![addressHex] = timers[addressHex]]
              ELSE lockedSince
        /\ lastCall' = [op |-> "lockAccount", addressHex |-> addressHex,
                        ret |-> r.ret]
        /\ UNCHANGED <<store, timers, imported>>
        /\ UNCHANGED outside

\* the callback handed to setTimeout: keybase.lockAccount(addressHex); it
\* runs between two calls, whether or not the caller has taken the result
\* of the last one.  stale: the timer was scheduled before the last
\* lockAccount call that locked the address.
TimerFires(addressHex, stale) ==
    LET r == lockAccount(unlockedAccounts, addressHex)
    IN  /\ IF stale THEN lockedSince[addressHex] > 0
            ELSE timers[addressHex] > lockedSince[addressHex]
        /\ timers' = [timers EXCEPT ![addressHex] = @ - 1]
        /\ unlockedAccounts' = r.table
        /\ indefinite' = indefinite \cap DOMAIN r.table
        /\ lockedSince' =
              IF stale THEN [lockedSince EXCEPT ![addressHex] = @ - 1]
              ELSE lockedSince
        /\ lastCall' = [op |-> "timer", addressHex |-> addressHex,
                        stale |-> stale, ret |-> r.ret]
        /\ UNCHANGED <<store, imported>>
        /\ UNCHANGED outside

\* the caller takes the result of the call it awaited
Return ==
    /\ lastCall # Idle
    /\ lastCall' = Idle
    /\ UNCHANGED <<store, unlockedAccounts, timers, indefinite, lockedSince,
                   imported>>
    /\ UNCHANGED outside

Next ==
    \/ \E p \in Passphrases, s \in Seeds : CreateAccount(p, s)
    \/ \E k \in PrivateKeys, p \in Passphrases : ImportAccount(k, p)
    \/ \E c \in Credentials : DeleteAccount(c[1], c[2])
    \/ \E c \in PassphraseChanges : UpdateAccountPassphrase(c[1], c[2], c[3])
    \/ \E a \in AddressInputs : GetAccount(a)
    \/ ListAccounts
    \/ \E a \in AddressInputs, m \in Payloads : SignWithUnlockedAccount(a, m)
    \/ \E c \in Credentials : GetUnlockedAccount(c[1], c[2])
    \/ \E c \in Credentials, m \in Payloads : SignCall(c[1], c[2], m)
    \/ \E c \in Credentials : ExportAccount(c[1], c[2])
    \/ \E c \in Credentials, T \in Periods : UnlockAccount(c[1], c[2], T)
    \/ \E a \in AddressInputs : LockAccount(a)
    \/ \E a \in Addresses, stale \in BOOLEAN : TimerFires(a, stale)
    \/ Return

Spec == Init /\ [][Next]_vars

\* The lock state machine on its own: accounts are created, unlocked and
\* locked, and timers fire.  setTimeout runs every callback it was handed
\* once its period has elapsed, whatever calls are made in between, and
\* every awaited call returns.
LockNext ==
    \/ \E p \in Passphrases, s \in Seeds : CreateAccount(p, s)
    \/ \E c \in Credentials, T \in Periods : UnlockAccount(c[1], c[2], T)
    \/ \E a \in AddressInputs : LockAccount(a)
    \/ \E a \in Addresses, stale \in BOOLEAN : TimerFires(a, stale)
    \/ Return

LockSpec ==
    /\ Init
    /\ [][LockNext]_vars
    /\ WF_vars(Return)
    /\ \A a \in Addresses, stale \in BOOLEAN :
          WF_vars(TimerFires(a, stale))

\* The operations that use the accounts of a Keybase without creating,
\* replacing or deleting them, on accounts made by createAccount.
UseNext ==
    \/ \E p \in Passphrases, s \in Seeds : CreateAccount(p, s)
    \/ \E a \in AddressInputs : GetAccount(a)
    \/ ListAccounts
    \/ \E c \in Credentials, m \in Payloads : SignCall(c[1], c[2], m)
    \/ \E a \in AddressInputs, m \in Payloads : SignWithUnlockedAccount(a, m)
    \/ \E c \in Credentials, T \in Periods : UnlockAccount(c[1], c[2], T)
    \/ \E a \in AddressInputs : LockAccount(a)
    \/ \E a \in AddressInputs : IsUnlocked(a)
    \/ \E a \in Addresses, stale \in BOOLEAN : TimerFires(a, stale)
    \/ Return

UseSpec == Init /\ [][UseNext]_vars

\* ------------------------------------------------- a second Keybase
\* new Keybase(store) on the store of the first: the constructor gives it
\* an unlocked table of its own, and its setTimeout callbacks call its own
\* lockAccount.
OtherUnlockAccountShared(addressHex, passphrase, unlockPeriod) ==
    LET r == unlockAccount(store, unlockedAccounts, other.timers,
                           addressHex, passphrase, unlockPeriod)
    IN  /\ lastCall = Idle
        /\ Pending(r.timers, Addresses) <= MaxTimers
        /\ unlockedAccounts' = r.table
        /\ other' = [other EXCEPT !.timers = r.timers]
        /\ lastCall' = [op |-> "other.unlockAccount",
                        addressHex |-> addressHex, ret |-> r.ret]
        /\ UNCHANGED <<store, timers, indefinite, lockedSince, imported,
                       race, nodes, tableNodes, pocket>>

OtherUnlockAccount(addressHex, passphrase, unlockPeriod) ==
    LET r == unlockAccount(store, other.unlockedAccounts, other.timers,
                           addressHex, passphrase, unlockPeriod)
    IN  /\ lastCall = Idle
        /\ Pending(r.timers, Addresses) <= MaxTimers
        /\ other' = [unlockedAccounts |-> r.table, timers |-> r.timers]
        /\ lastCall' = [op |-> "other.unlockAccount",
                        addressHex |-> addressHex, ret |-> r.ret]
        /\ UNCHANGED <<store, unlockedAccounts, timers, indefinite,
                       lockedSince, imported, race, nodes, tableNodes, pocket>>

OtherLockAccount(addressHex) ==
    LET r == lockAccount(other.unlockedAccounts, addressHex)
    IN  /\ lastCall = Idle
        /\ other' = [other EXCEPT !.unlockedAccounts = r.table]
        /\ lastCall' = [op |-> "other.lockAccount",
                        addressHex |-> addressHex, ret |-> r.ret]
        /\ UNCHANGED <<store, unlockedAccounts, timers, indefinite,
                       lockedSince, imported, race, nodes, tableNodes, pocket>>

OtherTimerFires(addressHex) ==
    LET r == lockAccount(other.unlockedAccounts, addressHex)
    IN  /\ other.timers[addressHex] > 0
        /\ other' = [unlockedAccounts |-> r.table,
                     timers |-> [other.timers EXCEPT ![addressHex] = @ - 1]]
        /\ lastCall' = [op |-> "other.timer", addressHex |-> addressHex,
                        ret |-> r.ret]
        /\ UNCHANGED <<store, unlockedAccounts, timers, indefinite,
                       lockedSince, imported, race, nodes, tableNodes, pocket>>

\* both instances are constructed over a store in which one account was
\* created for each seed, with passphrase <<1>>
TwoInit ==
    LET first == createAccount(EmptyStore, <<1>>, Rep(0))
        second == createAccount(first.store, <<1>>, Rep(1))
    IN  /\ store = second.store
        /\ imported = [a \in Addresses |->
                          [privateKey |->
                              CHOOSE k \in PrivateKeys :
                                  validatePrivateKey(k) /\ AddressOf(k) = a,
                           passphrase |-> <<1>>]]
        /\ unlockedAccounts = [a \in {} |-> Undefined]
        /\ timers = [a \in Addresses |-> 0]
        /\ indefinite = {}
        /\ lockedSince = [a \in Addresses |-> 0]
        /\ lastCall = Idle
        /\ other = [unlockedAccounts |-> [a \in {} |-> Undefined],
                    timers |-> [a \in Addresses |-> 0]]
        /\ race = NoRace
        /\ nodes = InitialNodes
        /\ tableNodes = InitialNodes
        /\ pocket = NewPocket

TwoNext ==
    \/ \E c \in Credentials, T \in Periods : UnlockAccount(c[1], c[2], T)
    \/ \E a \in AddressInputs : LockAccount(a)
    \/ \E a \in Addresses, stale \in BOOLEAN : TimerFires(a, stale)
    \/ \E c \in Credentials, T \in Periods :
          OtherUnlockAccount(c[1], c[2], T)
    \/ \E a \in AddressInputs : OtherLockAccount(a)
    \/ \E a \in Addresses : OtherTimerFires(a)
    \/ Return

TwoSpec == TwoInit /\ [][TwoNext]_vars

\* ------------------------------------------------- overlapping calls
\* deleteAccount and updateAccountPassphrase started without awaiting the
\* other one.  An async method runs up to its first await when it is
\* called and from one await to the next when it is resumed; the store is
\* synchronous, so each of these pieces is one step.
\* deleteAccount up to "await this.unlockAccountFromPersistence": the
\* record is read from the store by the getAccount call made on the way
DeleteStart(addressHex, passphrase) ==
    LET validationError == validateAddressHex(addressHex)
    IN  /\ race.delete.pc = "idle"
        /\ race' =
              [race EXCEPT !.delete =
                  IF validationError # Undefined
                  THEN [pc |-> "done", addressHex |-> addressHex,
                        passphrase |-> passphrase,
                        ret |-> validationError, removed |-> FALSE]
                  ELSE [pc |-> "unlocking", addressHex |-> addressHex,
                        passphrase |-> passphrase,
                        unlockedAccountOrError |->
                            unlockAccountFromPersistence(store, addressHex,
                                                         passphrase)]]
        /\ UNCHANGED <<store, unlockedAccounts, timers, indefinite,
                       lockedSince, imported, lastCall, other, nodes,
                       tableNodes, pocket>>

\* deleteAccount from the await to its return: removeAccountRecord has no
\* await of its own
DeleteResume ==
    LET unlockedAccountOrError == race.delete.unlockedAccountOrError
        r == IF typeGuard(unlockedAccountOrError, "UnlockedAccount")
             THEN removeAccountRecord(store, unlockedAccountOrError)
             ELSE [store |-> store, ret |-> unlockedAccountOrError]
    IN  /\ race.delete.pc = "unlocking"
        /\ store' = r.store
        /\ imported' = Imported(imported, r.store, [ret |-> Undefined])
        /\ race' =
              [race EXCEPT !.delete =
                  [pc |-> "done", addressHex |-> race.delete.addressHex,
                   passphrase |-> race.delete.passphrase,
                   ret |-> r.ret,
                   removed |-> /\ HasRecord(store, race.delete.addressHex)
                               /\ ~HasRecord(r.store,
                                             race.delete.addressHex)]]
        /\ UNCHANGED <<unlockedAccounts, timers, indefinite, lockedSince,
                       lastCall, other, nodes, tableNodes, pocket>>

\* updateAccountPassphrase up to "await this.unlockAccountFromPersistence"
UpdateStart(addressHex, passphrase, newPassphrase) ==
    LET validationError == validateAddressHex(addressHex)
    IN  /\ race.update.pc = "idle"
        /\ race' =
              [race EXCEPT !.update =
                  IF validationError # Undefined
                  THEN [pc |-> "done", addressHex |-> addressHex,
                        passphrase |-> passphrase,
                        newPassphrase |-> newPassphrase,
                        ret |-> validationError]
                  ELSE [pc |-> "unlocking", addressHex |-> addressHex,
                        passphrase |-> passphrase,
                        newPassphrase |-> newPassphrase,
                        unlockedAccountOrError |->
                            unlockAccountFromPersistence(store, addressHex,
                                                         passphrase)]]
        /\ UNCHANGED <<store, unlockedAccounts, timers, indefinite,
                       lockedSince, imported, lastCall, other, nodes,
                       tableNodes, pocket>>

\* updateAccountPassphrase from that await to
\* "await this.removeAccountRecord"
UpdateRemove ==
    LET unlockedAccountOrError == race.update.unlockedAccountOrError
        r == removeAccountRecord(store, unlockedAccountOrError)
    IN  /\ race.update.pc = "unlocking"
        /\ IF typeGuard(unlockedAccountOrError, "UnlockedAccount")
           THEN /\ store' = r.store
                /\ imported' =
                      Imported(imported, r.store, [ret |-> Undefined])
                /\ race' = [race EXCEPT !.update.pc = "removed",
                                        !.update.errorOrUndefined = r.ret]
           ELSE /\ race' =
                      [race EXCEPT !.update =
                          [pc |-> "done",
                           addressHex |-> race.update.addressHex,
                           passphrase |-> race.update.passphrase,
                           newPassphrase |-> race.update.newPassphrase,
                           ret |-> unlockedAccountOrError]]
                /\ UNCHANGED <<store, imported>>
        /\ UNCHANGED <<unlockedAccounts, timers, indefinite, lockedSince,
                       lastCall, other, nodes, tableNodes, pocket>>

\* updateAccountPassphrase from that await to its return: importAccount is
\* called without await and runs up to its own await of persistAccount,
\* which has written the record and the index by then
UpdateImport ==
    LET unlockedAccount == race.update.unlockedAccountOrError
        r == importAccount(store, unlockedAccount.privateKey,
                           race.update.newPassphrase)
        importedAccountOrError == Promise(r.ret)
    IN  /\ race.update.pc = "removed"
        /\ store' = r.store
        /\ imported' =
              Imported(imported, r.store,
                       [ret |-> r.ret,
                        privateKey |-> unlockedAccount.privateKey,
                        passphrase |-> race.update.newPassphrase])
        /\ race' =
              [race EXCEPT !.update =
                  [pc |-> "done", addressHex |-> race.update.addressHex,
                   passphrase |-> race.update.passphrase,
                   newPassphrase |-> race.update.newPassphrase,
                   ret |-> IF typeGuard(importedAccountOrError, "Error")
                           THEN importedAccountOrError
                           ELSE Undefined]]
        /\ UNCHANGED <<unlockedAccounts, timers, indefinite, lockedSince,
                       lastCall, other, nodes, tableNodes, pocket>>

\* the two calls are made on a Keybase whose store holds two accounts
RaceNext ==
    \/ \E a \in Addresses, p \in Passphrases : DeleteStart(a, p)
    \/ DeleteResume
    \/ \E a \in Addresses, p, q \in Passphrases : UpdateStart(a, p, q)
    \/ UpdateRemove
    \/ UpdateImport

RaceSpec == TwoInit /\ [][RaceNext]_vars

\* ------------------------------------------------------ routing tables
NewRouting(ns) ==
    LET r == Routing_constructor(ns)
    IN  /\ lastCall = Idle
        /\ nodes' = IF r.type = "thrown" THEN nodes ELSE r.nodes
        /\ lastCall' = [op |-> "new Routing", nodes |-> ns,
                        ret |-> IF r.type = "thrown" THEN r ELSE Undefined]
        /\ UNCHANGED <<tableNodes, keybases, pocket>>

NewRoutingTable(ns) ==
    LET r == RoutingTable_constructor(ns)
    IN  /\ lastCall = Idle
        /\ tableNodes' = IF r.type = "thrown" THEN tableNodes ELSE r.nodes
        /\ lastCall' = [op |-> "new RoutingTable", nodes |-> ns,
                        ret |-> IF r.type = "thrown" THEN r ELSE Undefined]
        /\ UNCHANGED <<nodes, keybases, pocket>>

RoutingAddNode(node) ==
    /\ lastCall = Idle
    /\ nodes' = Routing_addNode(nodes, node)
    /\ lastCall' = [op |-> "Routing.addNode", node |-> node,
                    ret |-> Undefined]
    /\ UNCHANGED <<tableNodes, keybases, pocket>>

RoutingTableAddNode(node) ==
    /\ lastCall = Idle
    /\ tableNodes' = RoutingTable_addNode(tableNodes, node)
    /\ lastCall' = [op |-> "RoutingTable.addNode", node |-> node,
                    ret |-> Undefined]
    /\ UNCHANGED <<nodes, keybases, pocket>>

RoutingDeleteNode(node) ==
    LET r == Routing_deleteNode(nodes, node)
    IN  /\ lastCall = Idle
        /\ nodes' = r.nodes
        /\ lastCall' = [op |-> "Routing.deleteNode", node |-> node,
                        ret |-> r.ret]
        /\ UNCHANGED <<tableNodes, keybases, pocket>>

RoutingTableDeleteNode(node, byReference) ==
    LET r == RoutingTable_deleteNode(tableNodes, node, byReference)
    IN  /\ lastCall = Idle
        /\ tableNodes' = r.nodes
        /\ lastCall' = [op |-> "RoutingTable.deleteNode", node |-> node,
                        ret |-> r.ret]
        /\ UNCHANGED <<nodes, keybases, pocket>>

RoutingFilterNodes(blockchain, ns) ==
    /\ lastCall = Idle
    /\ lastCall' = [op |-> "Routing.filterNodes", blockchain |-> blockchain,
                    nodes |-> ns,
                    ret |-> Routing_filterNodes(nodes, blockchain, ns)]
    /\ UNCHANGED <<nodes, tableNodes, keybases, pocket>>

RoutingTableFilterNodes(blockchain, ns) ==
    /\ lastCall = Idle
    /\ lastCall' = [op |-> "RoutingTable.filterNodes",
                    blockchain |-> blockchain, nodes |-> ns,
                    ret |-> RoutingTable_filterNodes(blockchain, ns)]
    /\ UNCHANGED <<nodes, tableNodes, keybases, pocket>>

RoutingGetNode ==
    /\ lastCall = Idle
    /\ lastCall' = [op |-> "Routing.getNode", ret |-> Routing_getNode(nodes)]
    /\ UNCHANGED <<nodes, tableNodes, keybases, pocket>>

RoutingTableGetNode(random) ==
    /\ lastCall = Idle
    /\ random \in randomIndexes(Len(tableNodes))
    /\ lastCall' = [op |-> "RoutingTable.getNode",
                    ret |-> RoutingTable_getNode(tableNodes, random)]
    /\ UNCHANGED <<nodes, tableNodes, keybases, pocket>>

RoutingReadNode(publicKey) ==
    /\ lastCall = Idle
    /\ lastCall' = [op |-> "Routing.readNode", address |-> publicKey,
                    ret |-> Routing_readNode(nodes, publicKey)]
    /\ UNCHANGED <<nodes, tableNodes, keybases, pocket>>

RoutingTableReadNode(address) ==
    /\ lastCall = Idle
    /\ lastCall' = [op |-> "RoutingTable.readNode", address |-> address,
                    ret |-> RoutingTable_readNode(tableNodes, address)]
    /\ UNCHANGED <<nodes, tableNodes, keybases, pocket>>

RoutingReadNodeBy(blockchain, random) ==
    /\ lastCall = Idle
    /\ random \in randomIndexes(Len(nodes))
    /\ lastCall' = [op |-> "Routing.readNodeBy", blockchain |-> blockchain,
                    nodes |-> nodes,
                    ret |-> Routing_readNodeBy(nodes, blockchain, random)]
    /\ UNCHANGED <<nodes, tableNodes, keybases, pocket>>

RoutingReadNodeFrom(blockchain, ns, random) ==
    /\ lastCall = Idle
    /\ random \in randomIndexes(Len(nodes))
    /\ lastCall' = [op |-> "Routing.readNodeFrom",
                    blockchain |-> blockchain, nodes |-> ns,
                    ret |-> Routing_readNodeFrom(nodes, blockchain, ns,
                                                 random)]
    /\ UNCHANGED <<nodes, tableNodes, keybases, pocket>>

RoutingNext ==
    \/ \E ns \in NodeLists(MaxNodes + 1) : NewRouting(ns)
    \/ \E ns \in NodeLists(MaxNodes + 1) : NewRoutingTable(ns)
    \/ \E node \in AllNodes : RoutingAddNode(node)
    \/ \E node \in AllNodes : RoutingTableAddNode(node)
    \/ \E node \in AllNodes : RoutingDeleteNode(node)
    \/ \E node \in AllNodes, byReference \in BOOLEAN :
          RoutingTableDeleteNode(node, byReference)
    \/ \E b \in Blockchains, ns \in NodeLists(MaxNodes) :
          RoutingFilterNodes(b, ns)
    \/ \E b \in Blockchains, ns \in NodeLists(MaxNodes) :
          RoutingTableFilterNodes(b, ns)
    \/ RoutingGetNode
    \/ \E random \in 0..MaxNodes : RoutingTableGetNode(random)
    \/ \E publicKey \in NodeAddresses : RoutingReadNode(publicKey)
    \/ \E address \in NodeAddresses : RoutingTableReadNode(address)
    \/ \E b \in Blockchains, random \in 0..MaxNodes :
          RoutingReadNodeBy(b, random)
    \/ \E b \in Blockchains, ns \in NodeLists(MaxNodes),
          random \in 0..MaxNodes : RoutingReadNodeFrom(b, ns, random)
    \/ Return

RoutingSpec == Init /\ [][RoutingNext]_vars

\* --------------------------------------------------------------- Pocket
\* sendRelay, getNode and retrieveNodes are async: each runs to its next
\* await in one step, and goes on when what it awaits has answered.

\* the result of a sendRelay call as the caller sees it
SendRelayResult(relay, callback, node, asked, sent, out) ==
    [op |-> "Pocket.sendRelay", relay |-> relay, callback |-> callback,
     node |-> node, asked |-> asked, sent |-> sent,
     callbacks |-> out.callbacks, ret |-> out.ret,
     rejected |-> out.rejected]

\* sendRelay from the node that getNode returned to the await of
\* node.sendRelay, or to the report that there is no node
SendRelayWith(relay, callback, node, asked, configurationNodes) ==
    IF node = Null
    THEN /\ lastCall' =
                SendRelayResult(relay, callback, node, asked, 0,
                    inTry(callback, <<Error("Node is empty.")>>,
                          Error("Node is empty."),
                          sendRelayCaught(CallbackError)))
         /\ pocket' = [pocket EXCEPT !.nodes = configurationNodes,
                                     !.call = [pc |-> "idle"]]
    ELSE /\ pocket' = [pocket EXCEPT
                          !.nodes = configurationNodes,
                          !.call = [pc |-> "node.sendRelay",
                                    relay |-> relay, callback |-> callback,
                                    node |-> node, asked |-> asked]]
         /\ UNCHANGED lastCall

SendRelay(relay, callback, random) ==
    LET checks == sendRelayChecks(relay, callback)
    IN  /\ lastCall = Idle
        /\ pocket.call.pc = "idle"
        /\ IF checks # Undefined
           THEN /\ random = 0
                /\ lastCall' = SendRelayResult(relay, callback, Null,
                                               FALSE, 0, checks)
                /\ UNCHANGED pocket
           ELSE IF nodesIsEmpty(pocket.nodes)
           THEN /\ random = 0
                /\ pocket' = [pocket EXCEPT
                                 !.call = [pc |-> "retrieveNodes",
                                           op |-> "sendRelay",
                                           relay |-> relay,
                                           callback |-> callback,
                                           netID |-> relay.netID,
                                           network |-> relay.blockchain]]
                /\ UNCHANGED lastCall
           ELSE /\ random \in randomIndexes(Len(matching(pocket.nodes,
                                 relay.netID, relay.blockchain)))
                /\ SendRelayWith(relay, callback,
                                 getNodeFrom(pocket.nodes, relay.netID,
                                             relay.blockchain, random),
                                 FALSE, pocket.nodes)
        /\ UNCHANGED <<nodes, tableNodes, keybases>>

GetNode(netID, network, random) ==
    /\ lastCall = Idle
    /\ pocket.call.pc = "idle"
    /\ IF nodesIsEmpty(pocket.nodes)
       THEN /\ random = 0
            /\ pocket' = [pocket EXCEPT
                             !.call = [pc |-> "retrieveNodes",
                                       op |-> "getNode",
                                       netID |-> netID,
                                       network |-> network,
                                       before |-> pocket.nodes]]
            /\ UNCHANGED lastCall
       ELSE /\ random \in randomIndexes(Len(matching(pocket.nodes, netID,
                                                     network)))
            /\ lastCall' = [op |-> "Pocket.getNode", netID |-> netID,
                            network |-> network, asked |-> FALSE,
                            before |-> pocket.nodes,
                            retrieved |-> Undefined,
                            ret |-> getNodeFrom(pocket.nodes, netID,
                                                network, random)]
            /\ UNCHANGED pocket
    /\ UNCHANGED <<nodes, tableNodes, keybases>>

\* the dispatcher answers the retrieveNodes call of getNode, and getNode
\* goes on to its return; a getNode called by sendRelay returns into it
GetNodeAfterRetrieveNodes(dispatched, random) ==
    LET call == pocket.call
        retrieved == retrieveNodes(pocket.nodes, dispatched, "none")
        got == getNodeAfterRetrieve(retrieved.nodes, retrieved.out.ret,
                                    call.netID, call.network, random)
    IN  /\ lastCall = Idle
        /\ call.pc = "retrieveNodes"
        /\ random \in randomIndexes(Len(matching(got.nodes, call.netID,
                                                 call.network)))
        /\ IF call.op = "getNode"
           THEN /\ lastCall' = [op |-> "Pocket.getNode",
                                netID |-> call.netID,
                                network |-> call.network, asked |-> TRUE,
                                before |-> call.before,
                                retrieved |-> retrieved.out.ret,
                                ret |-> got.ret]
                /\ pocket' = [pocket EXCEPT !.nodes = got.nodes,
                                            !.call = [pc |-> "idle"]]
           ELSE SendRelayWith(call.relay, call.callback, got.ret, TRUE,
                              got.nodes)
        /\ UNCHANGED <<nodes, tableNodes, keybases>>

\* the node answers the relay
SendRelayAfterNode(response) ==
    LET call == pocket.call
    IN  /\ lastCall = Idle
        /\ call.pc = "node.sendRelay"
        /\ lastCall' = SendRelayResult(call.relay, call.callback,
                           call.node, call.asked, 1,
                           sendRelayAfterNode(response, call.callback))
        /\ pocket' = [pocket EXCEPT !.call = [pc |-> "idle"]]
        /\ UNCHANGED <<nodes, tableNodes, keybases>>

\* retrieveNodes called on the Pocket itself, up to its await
RetrieveNodes(callback) ==
    /\ lastCall = Idle
    /\ pocket.retrieve.pc = "idle"
    /\ pocket' = [pocket EXCEPT
                     !.retrieve = [pc |-> "retrieveServiceNodes",
                                   callback |-> callback]]
    /\ UNCHANGED <<lastCall, nodes, tableNodes, keybases>>

RetrieveNodesAfterDispatch(dispatched) ==
    LET retrieved == retrieveNodes(pocket.nodes, dispatched,
                                   pocket.retrieve.callback)
    IN  /\ lastCall = Idle
        /\ pocket.retrieve.pc = "retrieveServiceNodes"
        /\ lastCall' = [op |-> "Pocket.retrieveNodes",
                        callback |-> pocket.retrieve.callback,
                        callbacks |-> retrieved.out.callbacks,
                        ret |-> retrieved.out.ret,
                        rejected |-> retrieved.out.rejected]
        /\ pocket' = [pocket EXCEPT !.nodes = retrieved.nodes,
                                    !.retrieve = [pc |-> "idle"]]
        /\ UNCHANGED <<nodes, tableNodes, keybases>>

PocketNext ==
    \/ \E relay \in Relays, callback \in Callbacks, random \in 0..1 :
          SendRelay(relay, callback, random)
    \/ \E netID \in NetIDs, network \in Networks, random \in 0..1 :
          GetNode(netID, network, random)
    \/ \E dispatched \in DispatchOutcomes, random \in 0..1 :
          GetNodeAfterRetrieveNodes(dispatched, random)
    \/ \E response \in NodeOutcomes : SendRelayAfterNode(response)
    \/ \E callback \in Callbacks : RetrieveNodes(callback)
    \/ \E dispatched \in DispatchOutcomes :
          RetrieveNodesAfterDispatch(dispatched)
    \/ Return

PocketSpec == Init /\ [][PocketNext]_vars

\* ------------------------------------------------------------ properties
WrongPassphrase == Error("Wrong passphrase for account")

AccountNotFound == Error("Account not found")

UnlockingOps ==
    {"unlockAccount", "getUnlockedAccount", "sign", "exportAccount",
     "deleteAccount", "updateAccountPassphrase"}

\* C1: the account index and the account records agree: every address in
\* the index has a record under "account_" + address, and the address of
\* every record is in the index.
C1_IndexAndRecordsAgree ==
    /\ \A i \in 1..Len(IndexItems(store)) :
          HasRecord(store, IndexItems(store)[i])
    /\ \A a \in Addresses :
          HasRecord(store, a) => Occurrences(IndexItems(store), a) > 0

\* C2: the timer of an unlock whose address was locked by lockAccount after
\* the timer was scheduled removes nothing when it fires: an entry that is
\* in the unlocked table then was written by a newer unlock and stays.
C2_StaleTimerKeepsNewerUnlock ==
    [][\A a \in Addresses :
          (/\ TimerFires(a, TRUE)
           /\ isUnlocked(unlockedAccounts, a))
          => isUnlocked(unlockedAccounts', a)]_vars

\* C3: importing a private key again under the passphrase it is already
\* stored with leaves one record at its address and the address exactly
\* once in the index.
C3_ReimportIsIdempotent ==
    [][(/\ lastCall'.op = "importAccount"
        /\ typeGuard(lastCall'.ret, "Account")
        /\ HasRecord(store, lastCall'.ret.addressHex)
        /\ imported[lastCall'.ret.addressHex] =
              [privateKey |-> lastCall'.privateKey,
               passphrase |-> lastCall'.passphrase])
       => (/\ HasRecord(store', lastCall'.ret.addressHex)
           /\ Occurrences(IndexItems(store'),
                          lastCall'.ret.addressHex) = 1)]_vars

\* C4: after deleteAccount(a, p) returned success, getAccount(a) fails with
\* "Account not found" and a does not occur in the index.
C4_DeletedIsGone ==
    (lastCall.op = "deleteAccount" /\ lastCall.ret = Undefined)
    => (/\ getAccount(store, lastCall.addressHex) = AccountNotFound
        /\ Occurrences(IndexItems(store), lastCall.addressHex) = 0)

\* C5: after importAccount(k, p) returned an Account at address a,
\* getUnlockedAccount(a, p) returns an UnlockedAccount with private key k
\* and address a.
C5_ImportUnlockRoundTrip ==
    (lastCall.op = "importAccount" /\ typeGuard(lastCall.ret, "Account"))
    => LET u == getUnlockedAccount(store, lastCall.ret.addressHex,
                                   lastCall.passphrase)
       IN  /\ typeGuard(u, "UnlockedAccount")
           /\ u.privateKey = lastCall.privateKey
           /\ u.addressHex = lastCall.ret.addressHex

C5_Witness ==
    /\ lastCall.op = "importAccount"
    /\ typeGuard(lastCall.ret, "Account")
    /\ HasRecord(store, lastCall.ret.addressHex)
    /\ typeGuard(getUnlockedAccount(store, lastCall.ret.addressHex,
                                    lastCall.passphrase), "UnlockedAccount")

\* C6: an unlocking operation called on a stored account with a passphrase
\* other than the one the record was imported under returns the wrong
\* passphrase error and changes neither the store, the unlocked table nor
\* the timers.
C6_WrongPassphraseRejected ==
    [][(/\ lastCall'.op \in UnlockingOps
        /\ HasRecord(store, lastCall'.addressHex)
        /\ lastCall'.passphrase # imported[lastCall'.addressHex].passphrase)
       => (/\ lastCall'.ret = WrongPassphrase
           /\ UNCHANGED <<store, unlockedAccounts, timers>>)]_vars

C6_Witness ==
    /\ lastCall.op = "unlockAccount"
    /\ HasRecord(store, lastCall.addressHex)
    /\ lastCall.passphrase # imported[lastCall.addressHex].passphrase
    /\ lastCall.ret = WrongPassphrase

\* C7: an entry written by unlockAccount(a, p, 0) stays in the unlocked
\* table in every step that is not a call of lockAccount(a).
C7_IndefiniteUnlockStays ==
    [][\A a \in Addresses :
          (/\ isUnlocked(unlockedAccounts, a)
           /\ a \in indefinite
           /\ ~(lastCall'.op = "lockAccount" /\ lastCall'.addressHex = a))
          => isUnlocked(unlockedAccounts', a)]_vars

\* C8: an account with a pending auto-lock timer is eventually locked: the
\* timer fires, and when it has fired the account is not unlocked.
C8_TimedUnlockRelocks ==
    \A a \in Addresses :
        (isUnlocked(unlockedAccounts, a) /\ timers[a] > 0)
        ~> ~isUnlocked(unlockedAccounts, a)

C8_Witness ==
    /\ lastCall.op = "timer"
    /\ lastCall.ret = Undefined
    /\ ~isUnlocked(unlockedAccounts, lastCall.addressHex)

\* C9: updateAccountPassphrase(a, p, q), for an account stored at a under p
\* and a non-empty q, leaves a record at a that getAccount returns, that
\* unlocks under q to the private key it held before, that does not unlock
\* under p when p differs from q, and a in the index.
C9_PassphraseUpdated ==
    [][(/\ lastCall'.op = "updateAccountPassphrase"
        /\ HasRecord(store, lastCall'.addressHex)
        /\ lastCall'.passphrase = imported[lastCall'.addressHex].passphrase
        /\ Len(lastCall'.newPassphrase) > 0)
       => LET a == lastCall'.addressHex
              p == lastCall'.passphrase
              q == lastCall'.newPassphrase
              u == getUnlockedAccount(store', a, q)
          IN  /\ typeGuard(getAccount(store', a), "Account")
              /\ typeGuard(u, "UnlockedAccount")
              /\ u.privateKey = imported[a].privateKey
              /\ p # q => getUnlockedAccount(store', a, p) = WrongPassphrase
              /\ Occurrences(IndexItems(store'), a) > 0]_vars

C9_Witness ==
    /\ lastCall.op = "updateAccountPassphrase"
    /\ lastCall.ret = Undefined
    /\ lastCall.passphrase # lastCall.newPassphrase
    /\ HasRecord(store, lastCall.addressHex)
    /\ imported[lastCall.addressHex].passphrase = lastCall.newPassphrase

\* C10: updateAccountPassphrase returns undefined only if the passphrase was
\* updated: then the account is stored at a and unlocks under newPassphrase.
C10_UndefinedOnlyIfUpdated ==
    (lastCall.op = "updateAccountPassphrase" /\ lastCall.ret = Undefined)
    => (/\ HasRecord(store, lastCall.addressHex)
        /\ typeGuard(getUnlockedAccount(store, lastCall.addressHex,
                                        lastCall.newPassphrase),
                     "UnlockedAccount"))

\* C11: deleteAccount(a, q) on a stored account with a passphrase q other
\* than the one its record was encrypted with returns an Error and leaves
\* the record at a and the account index as they were.
C11_DeleteGatedOnPassphrase ==
    [][\A a \in Addresses :
          (/\ lastCall'.op = "deleteAccount"
           /\ lastCall'.addressHex = a
           /\ HasRecord(store, a)
           /\ lastCall'.passphrase # imported[a].passphrase)
          => (/\ typeGuard(lastCall'.ret, "Error")
              /\ StoreGet(store', generateAccountStoreKeyFromAddressHex(a)) =
                    StoreGet(store, generateAccountStoreKeyFromAddressHex(a))
              /\ StoreGet(store', ACCOUNT_INDEX_KEY) =
                    StoreGet(store, ACCOUNT_INDEX_KEY))]_vars

C11_Witness ==
    /\ lastCall.op = "deleteAccount"
    /\ lastCall.addressHex \in Addresses
    /\ HasRecord(store, lastCall.addressHex)
    /\ lastCall.passphrase # imported[lastCall.addressHex].passphrase
    /\ typeGuard(lastCall.ret, "Error")

\* C12: createAccount and importAccount with an empty passphrase return
\* "Empty passphrase", importAccount with a non-empty passphrase and a
\* private key of the wrong length returns "Invalid private key", and in
\* each of these cases the store (records and index) is left as it was.
C12_RejectedBeforeStore ==
    [][/\ (/\ lastCall'.op \in {"createAccount", "importAccount"}
           /\ Len(lastCall'.passphrase) = 0)
          => (/\ lastCall'.ret = Error("Empty passphrase")
              /\ store' = store)
       /\ (/\ lastCall'.op = "importAccount"
           /\ Len(lastCall'.passphrase) # 0
           /\ ~validatePrivateKey(lastCall'.privateKey))
          => (/\ lastCall'.ret = Error("Invalid private key")
              /\ store' = store)]_vars

C12_Witness ==
    /\ lastCall.op = "importAccount"
    /\ Len(lastCall.passphrase) # 0
    /\ ~validatePrivateKey(lastCall.privateKey)
    /\ lastCall.ret = Error("Invalid private key")
    /\ Len(IndexItems(store)) > 0

\* C13: every value in the store is the address index (an array of
\* addresses) or an Account record with exactly a public key, an address
\* and an encrypted private key, which is not the hex of the private key
\* the record was imported with; no value has a privateKey field.
C13_NoPlaintextKeyInStore ==
    \A k \in DOMAIN store :
        IF k = ACCOUNT_INDEX_KEY
        THEN /\ store[k].type = "Array"
             /\ \A i \in 1..Len(store[k].items) :
                    store[k].items[i] \in Addresses
        ELSE /\ store[k].type = "Account"
             /\ DOMAIN store[k] = {"type", "publicKey", "addressHex",
                                   "encryptedPrivateKeyHex"}
             /\ k = generateAccountStoreKey(store[k])
             /\ store[k].addressHex \in DOMAIN imported
             /\ store[k].encryptedPrivateKeyHex #
                    hexFromBytes(imported[store[k].addressHex].privateKey)

C13_Witness ==
    /\ Cardinality({a \in Addresses : HasRecord(store, a)}) = 2
    /\ \E a \in DOMAIN unlockedAccounts : HasRecord(store, a)

\* C14: a step of sign(a, p, payload), successful or not, leaves the
\* unlocked table as it was (same addresses, same entries) and schedules
\* no timer.
C14_SignKeepsLockState ==
    [][lastCall'.op = "sign"
       => (/\ unlockedAccounts' = unlockedAccounts
           /\ timers' = timers
           /\ indefinite' = indefinite)]_vars

C14_Witness ==
    /\ lastCall.op = "sign"
    /\ typeGuard(lastCall.ret, "Buffer")
    /\ ~isUnlocked(unlockedAccounts, lastCall.addressHex)
    /\ DOMAIN unlockedAccounts # {}

NotUnlocked == Error("Account is not unlocked")

\* C15 as stated: signWithUnlockedAccount(a, payload) returns a signature
\* only when a has an entry in the unlocked table; when a has none it
\* returns "Account is not unlocked"; a signature is made with the private
\* key of the entry of a.
C15_SignsOnlyUnlocked ==
    [][lastCall'.op = "signWithUnlockedAccount"
       => LET a == lastCall'.addressHex
          IN  IF isUnlocked(unlockedAccounts, a)
              THEN lastCall'.ret =
                      Sign(lastCall'.payload, unlockedAccounts[a].privateKey)
              ELSE lastCall'.ret = NotUnlocked]_vars

\* C15 amended: as above for a well-formed address a; an address that
\* fails validateAddressHex gets the validation error and no signature.
C15_SignsOnlyUnlockedWellFormed ==
    [][lastCall'.op = "signWithUnlockedAccount"
       => LET a == lastCall'.addressHex
          IN  IF validateAddressHex(a) # Undefined
              THEN lastCall'.ret = validateAddressHex(a)
              ELSE IF isUnlocked(unlockedAccounts, a)
              THEN lastCall'.ret =
                      Sign(lastCall'.payload, unlockedAccounts[a].privateKey)
              ELSE lastCall'.ret = NotUnlocked]_vars

\* a stored account that was unlocked and locked again is refused
C15_Witness ==
    /\ lastCall.op = "signWithUnlockedAccount"
    /\ lastCall.ret = NotUnlocked
    /\ HasRecord(store, lastCall.addressHex)
    /\ DOMAIN unlockedAccounts # {}

\* C16 as stated: lockAccount(a) on an address with no entry in the
\* unlocked table returns "Account is not unlocked" and leaves the table
\* as it was; on an address with an entry it removes that entry and no
\* other, and a is not unlocked afterwards.
C16_LockRemovesOneEntry ==
    [][lastCall'.op = "lockAccount"
       => LET a == lastCall'.addressHex
          IN  IF ~isUnlocked(unlockedAccounts, a)
              THEN /\ lastCall'.ret = NotUnlocked
                   /\ unlockedAccounts' = unlockedAccounts
              ELSE /\ lastCall'.ret = Undefined
                   /\ ~isUnlocked(unlockedAccounts', a)
                   /\ DOMAIN unlockedAccounts' = DOMAIN unlockedAccounts \ {a}
                   /\ \A b \in DOMAIN unlockedAccounts' :
                          unlockedAccounts'[b] = unlockedAccounts[b]]_vars

\* C16 amended: as above for a well-formed address a; an address that
\* fails validateAddressHex gets the validation error and the table is
\* left as it was.
C16_LockRemovesOneEntryWellFormed ==
    [][lastCall'.op = "lockAccount"
       => LET a == lastCall'.addressHex
          IN  IF validateAddressHex(a) # Undefined
              THEN /\ lastCall'.ret = validateAddressHex(a)
                   /\ unlockedAccounts' = unlockedAccounts
              ELSE IF ~isUnlocked(unlockedAccounts, a)
              THEN /\ lastCall'.ret = NotUnlocked
                   /\ unlockedAccounts' = unlockedAccounts
              ELSE /\ lastCall'.ret = Undefined
                   /\ ~isUnlocked(unlockedAccounts', a)
                   /\ DOMAIN unlockedAccounts' = DOMAIN unlockedAccounts \ {a}
                   /\ \A b \in DOMAIN unlockedAccounts' :
                          unlockedAccounts'[b] = unlockedAccounts[b]]_vars

\* an entry was removed while another account stays unlocked
C16_Witness ==
    /\ lastCall.op = "lockAccount"
    /\ lastCall.ret = Undefined
    /\ ~isUnlocked(unlockedAccounts, lastCall.addressHex)
    /\ DOMAIN unlockedAccounts # {}

\* C17: a step of exportAccount(a, p) or getUnlockedAccount(a, p),
\* successful or not, leaves isUnlocked of every address as it was,
\* schedules no timer and leaves the store as it was.
C17_NoCustodyTaken ==
    [][lastCall'.op \in {"exportAccount", "getUnlockedAccount"}
       => (/\ \A a \in AddressInputs :
                 isUnlocked(unlockedAccounts', a) =
                    isUnlocked(unlockedAccounts, a)
           /\ timers' = timers
           /\ store' = store)]_vars

\* the key of a locked account was handed out and the account is locked
C17_Witness ==
    /\ lastCall.op = "exportAccount"
    /\ typeGuard(lastCall.ret, "Buffer")
    /\ lastCall.ret.bytes = imported[lastCall.addressHex].privateKey
    /\ ~isUnlocked(unlockedAccounts, lastCall.addressHex)

\* C18: listAccounts returns the array of the Accounts stored for the index
\* entries, one per entry and in index order, when every entry has a
\* readable record; otherwise it returns the error of the first entry whose
\* lookup fails, and no array.
C18_ListAllOrFirstError ==
    lastCall.op = "listAccounts"
    => LET items == IndexItems(store)
           failing == {i \in 1..Len(items) :
                          ~typeGuard(getAccount(store, items[i]), "Account")}
       IN  IF failing = {}
           THEN /\ typeGuard(lastCall.ret, "Array")
                /\ Len(lastCall.ret.items) = Len(items)
                /\ \A i \in 1..Len(items) :
                      /\ typeGuard(lastCall.ret.items[i], "Account")
                      /\ lastCall.ret.items[i].addressHex = items[i]
                      /\ lastCall.ret.items[i] =
                            StoreGet(store,
                                generateAccountStoreKeyFromAddressHex(items[i]))
           ELSE /\ typeGuard(lastCall.ret, "Error")
                /\ \E i \in failing :
                      /\ \A j \in failing : i <= j
                      /\ lastCall.ret = getAccount(store, items[i])

\* an index entry without a record makes the call fail although another
\* entry could be read
C18_Witness ==
    /\ lastCall.op = "listAccounts"
    /\ typeGuard(lastCall.ret, "Error")
    /\ \E i \in 1..Len(IndexItems(store)) :
          HasRecord(store, IndexItems(store)[i])

\* C19: getAccount(a) on an address that fails validateAddressHex returns
\* the validation error and makes no store.get call; on a well-formed
\* address it returns "Account not found" exactly when the store has no
\* record under "account_" + a, and the stored Account otherwise.
C19_GetAccountOutcomes ==
    lastCall.op = "getAccount"
    => LET a == lastCall.addressHex
           accountKey == ACCOUNT_STORE_PREFIX \o a
       IN  IF validateAddressHex(a) # Undefined
           THEN /\ lastCall.ret = validateAddressHex(a)
                /\ lastCall.gets = 0
           ELSE /\ lastCall.ret = AccountNotFound <=> accountKey \notin DOMAIN store
                /\ accountKey \in DOMAIN store => lastCall.ret = store[accountKey]

\* an address that is still in the index but has lost its record
C19_Witness ==
    /\ lastCall.op = "getAccount"
    /\ lastCall.ret = AccountNotFound
    /\ Occurrences(IndexItems(store), lastCall.addressHex) > 0

\* C20: a step of createAccount(p) that returns an Account writes that
\* Account under its own key and no other record, which is one record more
\* when the address had none, and makes the index the old index with the
\* address of the Account appended.
C20_CreatePersistsOne ==
    [][(/\ lastCall'.op = "createAccount"
        /\ typeGuard(lastCall'.ret, "Account"))
       => LET account == lastCall'.ret
              accountKey == generateAccountStoreKey(account)
              Records(st) == DOMAIN st \ {ACCOUNT_INDEX_KEY}
          IN  /\ account.type = "Account"
              /\ store'[accountKey] = account
              /\ Records(store') = Records(store) \cup {accountKey}
              /\ \A k \in Records(store) \ {accountKey} :
                    store'[k] = store[k]
              /\ accountKey \notin DOMAIN store
                 => Cardinality(Records(store')) =
                       Cardinality(Records(store)) + 1
              /\ IndexItems(store') =
                    Append(IndexItems(store), account.addressHex)]_vars

\* a second account was created next to an existing one
C20_Witness ==
    /\ lastCall.op = "createAccount"
    /\ typeGuard(lastCall.ret, "Account")
    /\ Len(IndexItems(store)) = 2
    /\ IndexItems(store)[2] = lastCall.ret.addressHex
    /\ IndexItems(store)[1] # lastCall.ret.addressHex
    /\ HasRecord(store, IndexItems(store)[1])

\* C21: the keypair of createAccount is a function of the passphrase: after
\* createAccount(p) returned an Account, another createAccount(p) returns
\* an Account with the same public key and the same address.
C21_CreateIsDeterministic ==
    (lastCall.op = "createAccount" /\ typeGuard(lastCall.ret, "Account"))
    => \A seed \in Seeds :
          LET again == createAccount(store, lastCall.passphrase, seed).ret
          IN  /\ typeGuard(again, "Account")
              /\ again.publicKey = lastCall.ret.publicKey
              /\ again.addressHex = lastCall.ret.addressHex

\* C22: a step of importAccount, deleteAccount, updateAccountPassphrase,
\* lockAccount or unlockAccount on one address leaves the record of every
\* other stored account, the occurrences of its address in the index and
\* its entry in the unlocked table as they were, also when the two
\* accounts have the same passphrase.
C22_AccountsAreIndependent ==
    [][\A b \in Addresses :
          LET target ==
                  IF lastCall'.op = "importAccount"
                  THEN AddressOf(lastCall'.privateKey)
                  ELSE lastCall'.addressHex
              accountKey == generateAccountStoreKeyFromAddressHex(b)
          IN  (/\ lastCall'.op \in {"importAccount", "deleteAccount",
                                    "updateAccountPassphrase", "lockAccount",
                                    "unlockAccount"}
               /\ target # b
               /\ HasRecord(store, b))
              => (/\ StoreGet(store', accountKey) = StoreGet(store, accountKey)
                  /\ Occurrences(IndexItems(store'), b) =
                        Occurrences(IndexItems(store), b)
                  /\ StoreGet(unlockedAccounts', b) =
                        StoreGet(unlockedAccounts, b))]_vars

\* one of two accounts with the same passphrase was deleted while the
\* other one, unlocked, is still there
C22_Witness ==
    /\ lastCall.op = "deleteAccount"
    /\ lastCall.ret = Undefined
    /\ \E b \in Addresses \ {lastCall.addressHex} :
          /\ HasRecord(store, b)
          /\ imported[b].passphrase = lastCall.passphrase
          /\ Occurrences(IndexItems(store), b) > 0
          /\ isUnlocked(unlockedAccounts, b)

\* C23: a step of unlockAccount, lockAccount or a timer callback of one
\* Keybase leaves isUnlocked of every address in the other Keybase over
\* the same store as it was.
C23_InstancesShareNoUnlockState ==
    [][\A a \in AddressInputs :
          /\ lastCall'.op \in {"unlockAccount", "lockAccount", "timer"}
             => isUnlocked(other.unlockedAccounts', a) =
                   isUnlocked(other.unlockedAccounts, a)
          /\ lastCall'.op \in {"other.unlockAccount", "other.lockAccount",
                               "other.timer"}
             => isUnlocked(unlockedAccounts', a) =
                   isUnlocked(unlockedAccounts, a)]_vars

\* the second Keybase unlocked an account that is locked in the first
C23_Witness ==
    /\ lastCall.op = "other.unlockAccount"
    /\ lastCall.ret = Undefined
    /\ isUnlocked(other.unlockedAccounts, lastCall.addressHex)
    /\ ~isUnlocked(unlockedAccounts, lastCall.addressHex)
    /\ DOMAIN unlockedAccounts # {}

\* C24: a step of unlockAccount(a, p, T) that returns an error leaves the
\* unlocked table and the pending timers as they were; one that succeeds
\* writes the entry of a, an UnlockedAccount of address a, and leaves the
\* entries of all other addresses as they were.
C24_UnlockChangesOnlyOnSuccess ==
    [][lastCall'.op = "unlockAccount"
       => LET a == lastCall'.addressHex
          IN  IF lastCall'.ret # Undefined
              THEN /\ typeGuard(lastCall'.ret, "Error")
                   /\ unlockedAccounts' = unlockedAccounts
                   /\ timers' = timers
              ELSE /\ DOMAIN unlockedAccounts' =
                         DOMAIN unlockedAccounts \cup {a}
                   /\ typeGuard(unlockedAccounts'[a], "UnlockedAccount")
                   /\ unlockedAccounts'[a].addressHex = a
                   /\ \A b \in DOMAIN unlockedAccounts \ {a} :
                         unlockedAccounts'[b] = unlockedAccounts[b]]_vars

\* a timed unlock with the wrong passphrase failed on an account that is
\* unlocked, while no timer is pending
C24_Witness ==
    /\ lastCall.op = "unlockAccount"
    /\ lastCall.ret = WrongPassphrase
    /\ lastCall.unlockPeriod > 0
    /\ isUnlocked(unlockedAccounts, lastCall.addressHex)
    /\ timers[lastCall.addressHex] = 0

\* C25: a step of unlockAccount, lockAccount, isUnlocked,
\* signWithUnlockedAccount, sign, getAccount, listAccounts or of a timer
\* callback leaves the store (every record and the index) as it was, and a
\* step of isUnlocked leaves the unlocked table and the timers as they
\* were, too.
C25_LockMachineNeverWritesStore ==
    [][/\ lastCall'.op \in {"unlockAccount", "lockAccount", "isUnlocked",
                            "signWithUnlockedAccount", "sign", "getAccount",
                            "listAccounts", "timer"}
          => store' = store
       /\ lastCall'.op = "isUnlocked"
          => (/\ unlockedAccounts' = unlockedAccounts
              /\ timers' = timers)]_vars

\* a timer callback locked one of two stored accounts
C25_Witness ==
    /\ lastCall.op = "timer"
    /\ lastCall.ret = Undefined
    /\ ~isUnlocked(unlockedAccounts, lastCall.addressHex)
    /\ HasRecord(store, lastCall.addressHex)
    /\ Len(IndexItems(store)) = 2

\* C26: every address with an entry in the unlocked table has an Account
\* record in the store; so after a successful deleteAccount(a, p) the
\* address a is not unlocked, and signWithUnlockedAccount on an address
\* without a record returns "Account is not unlocked".
C26_UnlockedHaveRecords ==
    /\ \A a \in DOMAIN unlockedAccounts : HasRecord(store, a)
    /\ (lastCall.op = "deleteAccount" /\ lastCall.ret = Undefined)
       => ~isUnlocked(unlockedAccounts, lastCall.addressHex)
    /\ (/\ lastCall.op = "signWithUnlockedAccount"
        /\ lastCall.addressHex \in Addresses
        /\ ~HasRecord(store, lastCall.addressHex))
       => lastCall.ret = NotUnlocked

C28_OverlapIsSerializable ==
    (/\ race.delete.pc = "done"
     /\ race.update.pc = "done"
     /\ race.delete.addressHex = race.update.addressHex
     /\ race.delete.passphrase = race.update.passphrase)
    => LET a == race.delete.addressHex
           p == race.delete.passphrase
           q == race.update.newPassphrase
           before ==
               createAccount(createAccount(EmptyStore, <<1>>, Rep(0)).store,
                             <<1>>, Rep(1)).store
           deleteFirst ==
               updateAccountPassphrase(deleteAccount(before, a, p).store,
                                       a, p, q).store
           updateFirst ==
               deleteAccount(updateAccountPassphrase(before, a, p, q).store,
                             a, p).store
       IN  /\ store \in {deleteFirst, updateFirst}
           /\ (race.delete.ret = Undefined /\ race.update.ret = Undefined)
              => ~(HasRecord(store, a) /\ ~race.delete.removed)

\* C29: a constructor throws for fewer than one and for more than maxNodes
\* nodes and otherwise keeps the nodes it was handed; after every step of
\* a constructor, addNode or deleteNode the table holds at most maxNodes
\* nodes; addNode on a full table drops the first node and puts the new
\* one last, and on any other table appends the new one.
C29_CapacityAndEviction ==
    [][/\ Len(nodes') <= MaxNodes
       /\ Len(tableNodes') <= MaxNodes
       /\ lastCall'.op = "new Routing"
          => IF Len(lastCall'.nodes) < 1 \/ Len(lastCall'.nodes) > MaxNodes
             THEN lastCall'.ret.type = "thrown" /\ nodes' = nodes
             ELSE lastCall'.ret = Undefined /\ nodes' = lastCall'.nodes
       /\ lastCall'.op = "new RoutingTable"
          => IF Len(lastCall'.nodes) < 1 \/ Len(lastCall'.nodes) > MaxNodes
             THEN lastCall'.ret.type = "thrown" /\ tableNodes' = tableNodes
             ELSE lastCall'.ret = Undefined /\ tableNodes' = lastCall'.nodes
       /\ lastCall'.op = "Routing.addNode"
          => nodes' = IF Len(nodes) = MaxNodes
                      THEN Tail(nodes) \o <<lastCall'.node>>
                      ELSE Append(nodes, lastCall'.node)
       /\ lastCall'.op = "RoutingTable.addNode"
          => tableNodes' = IF Len(tableNodes) = MaxNodes
                           THEN Tail(tableNodes) \o <<lastCall'.node>>
                           ELSE Append(tableNodes, lastCall'.node)]_vars

\* both tables are full after an addNode, with the added node last and
\* another node before it
C29_Witness ==
    /\ lastCall.op = "Routing.addNode"
    /\ Len(nodes) = MaxNodes
    /\ nodes[MaxNodes] = lastCall.node
    /\ nodes[1] # lastCall.node
    /\ Len(tableNodes) = MaxNodes

\* C30: filterNodes(blockchain, nodes) returns the nodes of the list it
\* was handed whose chains contain the blockchain, in their order, and
\* none of the others.
C30_FilterReturnsServingNodes ==
    lastCall.op \in {"Routing.filterNodes", "RoutingTable.filterNodes"}
    => LET Serves(node) ==
               \E c \in 1..Len(node.chains) :
                   node.chains[c] = lastCall.blockchain
       IN  lastCall.ret = SelectSeq(lastCall.nodes, Serves)

NodeNotFound == "Node not found in routing table."

\* C31: getNode returns a node of the routing table whenever the table
\* holds one, and the error 101 "Node not found in routing table." when
\* the table holds none; it never returns undefined.
C31_GetNodeMemberOrError ==
    /\ lastCall.op = "Routing.getNode"
       => IF Len(nodes) > 0
          THEN \E i \in 1..Len(nodes) : lastCall.ret = nodes[i]
          ELSE lastCall.ret = RpcErrorResponse("101", NodeNotFound)
    /\ lastCall.op = "RoutingTable.getNode"
       => IF Len(tableNodes) > 0
          THEN \E i \in 1..Len(tableNodes) : lastCall.ret = tableNodes[i]
          ELSE lastCall.ret = RpcError("101", NodeNotFound)

\* C32: readNode(address) returns a node of the routing table with that
\* address whenever the table holds one, and throws "Node not found in
\* routing table." only when it holds none.
C32_ReadNodeFindsPresent ==
    lastCall.op \in {"Routing.readNode", "RoutingTable.readNode"}
    => LET ns == IF lastCall.op = "Routing.readNode" THEN nodes
                 ELSE tableNodes
           present == {i \in 1..Len(ns) : ns[i].address = lastCall.address}
       IN  IF present # {}
           THEN \E i \in present : lastCall.ret = ns[i]
           ELSE lastCall.ret = Thrown(NodeNotFound)

\* C33: readNodeBy(blockchain) and readNodeFrom(blockchain, nodes) return
\* an error response or an element of the list that filterNodes gave
\* them, never undefined.
C33_ReadNodeByInBounds ==
    lastCall.op \in {"Routing.readNodeBy", "Routing.readNodeFrom"}
    => \/ lastCall.ret.type = "RpcErrorResponse"
       \/ \E i \in 1..Len(lastCall.nodes) :
              lastCall.ret = lastCall.nodes[i]

\* C34: sendRelay reports its outcome exactly once: with a callback, the
\* callback is invoked exactly once and nothing is returned; without one,
\* the outcome is returned; and for a null relay, an invalid relay or no
\* matching node the outcome is an Error and no relay is sent to a node.
C34_SendRelayReportsOnce ==
    lastCall.op = "Pocket.sendRelay"
    => LET given == lastCall.callback # "none"
           refused ==
               IF lastCall.relay = Null THEN TRUE
               ELSE ~isValid(lastCall.relay) \/ lastCall.node = Null
       IN  /\ given => /\ Len(lastCall.callbacks) = 1
                       /\ lastCall.ret = Undefined
           /\ ~given => /\ lastCall.callbacks = << >>
                        /\ lastCall.ret # Undefined
           /\ refused => /\ lastCall.sent = 0
                         /\ IF given
                            THEN lastCall.callbacks[1][1].type = "Error"
                            ELSE lastCall.ret.type = "Error"

\* C35: getNode(netID, network) asks the dispatcher for nodes exactly when
\* the configuration has no node, and the nodes it retrieved are then the
\* nodes of the configuration; it returns a node of the configuration for
\* which isEqual(netID, network) holds when there is one and the retrieval
\* did not fail, and null otherwise.
C35_GetNodeRetrievesWhenEmpty ==
    lastCall.op = "Pocket.getNode"
    => LET failed == lastCall.asked /\ lastCall.retrieved.type = "Error"
           found == matching(pocket.nodes, lastCall.netID,
                             lastCall.network)
       IN  /\ lastCall.asked <=> nodesIsEmpty(lastCall.before)
           /\ lastCall.asked /\ ~failed
              => pocket.nodes = lastCall.retrieved.items
           /\ IF failed \/ Len(found) = 0
              THEN lastCall.ret = Null
              ELSE \E i \in 1..Len(found) : lastCall.ret = found[i]

C35_Witness ==
    /\ lastCall.op = "Pocket.getNode"
    /\ lastCall.asked
    /\ lastCall.ret # Null
    /\ Len(pocket.nodes) = 2
    /\ ~isEqual(pocket.nodes[1], lastCall.netID, lastCall.network)

\* C36: every entry of the unlocked table, stored under key a, is an
\* UnlockedAccount whose addressHex is a and whose private key gives
\* address a again through its public-key half and addressFromPublickey.
C36_UnlockedEntriesMatchKey ==
    \A a \in DOMAIN unlockedAccounts :
        LET entry == unlockedAccounts[a]
        IN  /\ entry.type = "UnlockedAccount"
            /\ entry.addressHex = a
            /\ hexFromBytes(addressFromPublickey(
                   publicKeyFromPrivate(entry.privateKey))) = a

C36_Witness ==
    /\ lastCall.op = "unlockAccount"
    /\ lastCall.ret = Undefined
    /\ lastCall.addressHex \in DOMAIN unlockedAccounts
    /\ Cardinality(DOMAIN unlockedAccounts) = 2

====
